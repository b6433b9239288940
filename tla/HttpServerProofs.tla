-------------------------- MODULE HttpServerProofs --------------------------
(* Proofs about HttpServer, for any connections, workers and chunks.         *)
EXTENDS HttpServer, TLAPS, FiniteSetTheorems, FunctionTheorems, SequenceTheorems,
        WellFoundedInduction

----------------------------------------------------------------------------
(* The inductive invariant.                                                  *)

\* The queue q names every connection of S once, and perhaps the tick.
Lists(q, S) ==
    /\ q \in Seq(S \cup {Tick})
    /\ \A i, j \in DOMAIN q : q[i] = q[j] => i = j
    /\ \A c \in S : \E i \in DOMAIN q : q[i] = c

\* The connections of a worker that have a callback to come.
Pending(w) == {c \in Conns : home[c] = w /\ state[c] \in Queued}

QueuesListPending == \A w \in Workers : Lists(queue[w], Pending(w))

HandlersRun ==
    \A w \in Workers, c \in Conns :
        running[w] = c <=> home[c] = w /\ state[c] = "handling"

AcceptorWaits == \A c \in Conns : state[c] = "accepting" <=> next = c

\* A socket whose readiness is queued has something to read.
ReadyHasData == \A c \in Conns : state[c] = "ready" => inbox[c] # <<>>

\* A deadline is of a connection that is being read.
Read == {"start", "reading", "got", "ready", "abort"}

DeadlinesOwned ==
    /\ DOMAIN tasks = Workers
    /\ \A w \in Workers : \A i \in DOMAIN tasks[w] :
          /\ i \in 1..highest[w] /\ tasks[w][i] \in Conns
          /\ home[tasks[w][i]] = w /\ taskId[tasks[w][i]] = i
          /\ state[tasks[w][i]] \in Read

ServerInv ==
    /\ TypeOK /\ QueuesListPending /\ HandlersRun /\ AcceptorWaits
    /\ ReadyHasData /\ DeadlinesOwned

----------------------------------------------------------------------------
(* Queues.                                                                   *)

\* A list of a finite set is a sequence with each of its elements once.
LEMMA SeqOfSet ==
    ASSUME NEW S, IsFiniteSet(S), NEW s \in SetToSeqs(S)
    PROVE  /\ s \in Seq(S) /\ DOMAIN s = 1..Len(s)
           /\ \A i, j \in DOMAIN s : s[i] = s[j] => i = j
           /\ \A c \in S : \E i \in DOMAIN s : s[i] = c
<1> DEFINE D == 1..Cardinality(S)
<1>0. Cardinality(S) \in Nat
  BY FS_CardinalityType
<1>1. s \in [D -> S] /\ \A i, j \in D : i # j => s[i] # s[j]
  BY DEF SetToSeqs
<1>2. s \in Seq(S) /\ Len(s) = Cardinality(S) /\ DOMAIN s = D
  BY <1>0, <1>1
<1>3. s \in Injection(D, S)
  BY <1>1, Fun_IsInj
<1>4. IsFiniteSet(D) /\ Cardinality(D) = Cardinality(S)
  BY <1>0, FS_Interval
<1>5. s \in Surjection(D, S)
  BY <1>3, <1>4, FS_Injection
<1>6. \A c \in S : \E i \in D : s[i] = c
  <2> HIDE DEF D
  <2> QED BY <1>5, Fun_SurjectionProperties
<1> QED BY <1>1, <1>2, <1>6

LEMMA ListsDomain ==
    ASSUME NEW q, NEW S, Lists(q, S)
    PROVE  /\ DOMAIN q = 1..Len(q) /\ Len(q) \in Nat
           /\ \A i \in DOMAIN q : q[i] \in S \cup {Tick}
BY DEF Lists

LEMMA ListsAppend ==
    ASSUME NEW q, NEW S, Lists(q, S), NEW e, \A i \in DOMAIN q : q[i] # e
    PROVE  Lists(Append(q, e), (S \cup {e}) \ {Tick})
<1> DEFINE r == Append(q, e)
           T == (S \cup {e}) \ {Tick}
<1>1. q \in Seq(T \cup {Tick}) /\ e \in T \cup {Tick}
  <2>1. S \cup {Tick} \subseteq T \cup {Tick}
    OBVIOUS
  <2> QED BY <2>1, SeqMonotonic DEF Lists
<1> HIDE DEF T
<1>2. /\ r \in Seq(T \cup {Tick}) /\ Len(r) = Len(q) + 1
      /\ \A i \in 1..Len(q) : r[i] = q[i]
      /\ r[Len(q) + 1] = e
  BY <1>1, AppendProperties
<1>3. DOMAIN q = 1..Len(q) /\ DOMAIN r = 1..(Len(q) + 1) /\ Len(q) \in Nat
  BY <1>1, <1>2
<1> HIDE DEF r
<1>4. \A i \in DOMAIN r : i \in DOMAIN q \/ i = Len(q) + 1
  BY <1>3
<1>5. \A i, j \in DOMAIN r : r[i] = r[j] => i = j
  BY <1>2, <1>3, <1>4 DEF Lists
<1>6. \A c \in T : \E i \in DOMAIN r : r[i] = c
  <2>1. \A c \in T : c \in S \/ c = e
    BY DEF T
  <2>2. DOMAIN q \subseteq DOMAIN r /\ Len(q) + 1 \in DOMAIN r
    BY <1>3
  <2> QED BY <1>2, <1>3, <2>1, <2>2 DEF Lists
<1> QED BY <1>2, <1>5, <1>6 DEF Lists, r, T

LEMMA ListsTail ==
    ASSUME NEW q, NEW S, Lists(q, S), q # <<>>
    PROVE  /\ Head(q) \in S \cup {Tick} /\ Lists(Tail(q), S \ {Head(q)})
           /\ \A i \in DOMAIN Tail(q) : Tail(q)[i] # Head(q)
<1> DEFINE r == Tail(q)
<1>1. /\ q \in Seq(S \cup {Tick}) /\ r \in Seq(S \cup {Tick}) /\ Len(r) = Len(q) - 1
      /\ \A i \in 1..Len(r) : r[i] = q[i + 1]
      /\ Head(q) \in S \cup {Tick}
  BY HeadTailProperties DEF Lists
<1>2. /\ DOMAIN q = 1..Len(q) /\ DOMAIN r = 1..Len(r) /\ Len(q) \in Nat \ {0}
      /\ Head(q) = q[1]
  BY <1>1
<1> HIDE DEF r
<1>3. \A i \in DOMAIN r : i + 1 \in DOMAIN q /\ i + 1 # 1 /\ r[i] = q[i + 1]
  BY <1>1, <1>2
<1>4. \A i, j \in DOMAIN r : r[i] = r[j] => i = j
  BY <1>2, <1>3 DEF Lists
<1>5. \A i \in DOMAIN r : r[i] # Head(q)
  BY <1>2, <1>3 DEF Lists
<1>6. \A c \in S \ {Head(q)} : \E i \in DOMAIN r : r[i] = c
  <2> TAKE c \in S \ {Head(q)}
  <2>1. PICK k \in DOMAIN q : q[k] = c
    BY DEF Lists
  <2>2. k # 1
    BY <1>2, <2>1
  <2>3. k - 1 \in DOMAIN r
    BY <1>1, <1>2, <2>2
  <2> QED BY <1>1, <1>2, <2>1, <2>2, <2>3
<1>7. r \in Seq((S \ {Head(q)}) \cup {Tick})
  <2>1. \A i \in 1..Len(r) : r[i] \in (S \ {Head(q)}) \cup {Tick}
    BY <1>1, <1>2, <1>5
  <2> QED BY <1>1, <2>1
<1> QED BY <1>1, <1>4, <1>5, <1>6, <1>7 DEF Lists, r

LEMMA ListsConcat ==
    ASSUME NEW q, NEW S, Lists(q, S), NEW T, IsFiniteSet(T), Tick \notin T, S \cap T = {},
           NEW s \in SetToSeqs(T)
    PROVE  Lists(q \o s, S \cup T)
<1> DEFINE r == q \o s
           U == S \cup T \cup {Tick}
<1>1. q \in Seq(U) /\ s \in Seq(U)
  <2>1. s \in Seq(T) /\ q \in Seq(S \cup {Tick})
    BY SeqOfSet DEF Lists
  <2> QED BY <2>1, SeqMonotonic
<1>2. r \in Seq(U) /\ Len(r) = Len(q) + Len(s)
      /\ \A i \in 1..(Len(q) + Len(s)) :
           r[i] = IF i <= Len(q) THEN q[i] ELSE s[i - Len(q)]
  <2> HIDE DEF U
  <2> QED BY <1>1, ConcatProperties
<1>3. /\ DOMAIN q = 1..Len(q) /\ DOMAIN s = 1..Len(s) /\ DOMAIN r = 1..(Len(q) + Len(s))
      /\ Len(q) \in Nat /\ Len(s) \in Nat
  BY <1>1, <1>2
<1>4. /\ \A i \in DOMAIN q : q[i] \notin T
      /\ \A i \in DOMAIN s : s[i] \in T
      /\ \A i, j \in DOMAIN s : s[i] = s[j] => i = j
      /\ \A c \in T : \E i \in DOMAIN s : s[i] = c
  <2>1. \A i \in DOMAIN q : q[i] \in S \cup {Tick}
    BY ListsDomain
  <2>2. s \in Seq(T)
    BY SeqOfSet
  <2>3. \A i \in DOMAIN s : s[i] \in T
    BY <2>2
  <2> QED BY <2>1, <2>3, SeqOfSet
<1> HIDE DEF r
<1>5. \A i \in DOMAIN r :
          \/ i \in DOMAIN q /\ r[i] = q[i]
          \/ i - Len(q) \in DOMAIN s /\ r[i] = s[i - Len(q)] /\ i \notin DOMAIN q
  BY <1>2, <1>3
<1>6. \A i, j \in DOMAIN r : r[i] = r[j] => i = j
  <2> TAKE i, j \in DOMAIN r
  <2> HAVE r[i] = r[j]
  <2>1. CASE i \in DOMAIN q /\ j \in DOMAIN q
    BY <1>5, <2>1, <1>3 DEF Lists
  <2>2. CASE i \notin DOMAIN q /\ j \notin DOMAIN q
    <3>1. i - Len(q) = j - Len(q)
      BY <1>4, <1>5, <2>2
    <3> QED BY <3>1, <1>3
  <2>3. CASE ~(i \in DOMAIN q <=> j \in DOMAIN q)
    BY <1>4, <1>5, <2>3
  <2> QED BY <2>1, <2>2, <2>3
<1>7. \A c \in S \cup T : \E i \in DOMAIN r : r[i] = c
  <2> TAKE c \in S \cup T
  <2>1. CASE c \in S
    <3>1. PICK i \in DOMAIN q : q[i] = c
      BY <2>1 DEF Lists
    <3> QED BY <3>1, <1>2, <1>3
  <2>2. CASE c \in T
    <3>1. PICK i \in DOMAIN s : s[i] = c
      BY <2>2, <1>4
    <3>2. i + Len(q) \in DOMAIN r /\ r[i + Len(q)] = c
      BY <3>1, <1>2, <1>3
    <3> QED BY <3>2
  <2> QED BY <2>1, <2>2
<1> QED BY <1>2, <1>6, <1>7 DEF Lists, r, U

\* Closing sockets takes their callbacks out of the queue, and no other.
LEMMA ListsStaying ==
    ASSUME NEW q, NEW S, Lists(q, S), NEW A, Tick \notin A, NEW r \in Staying(q, A)
    PROVE  /\ Lists(r, S \ A)
           /\ \A k \in DOMAIN r : \E i \in DOMAIN q : r[k] = q[i]
<1> DEFINE places == {i \in DOMAIN q : q[i] \notin A}
<1>1. PICK p \in SetToSeqs(places) : r = [k \in DOMAIN p |-> q[p[k]]]
  BY DEF Staying
<1>2. DOMAIN q = 1..Len(q) /\ Len(q) \in Nat /\ \A i \in DOMAIN q : q[i] \in S \cup {Tick}
  BY ListsDomain
<1>3. IsFiniteSet(places)
  <2>1. IsFiniteSet(1..Len(q))
    BY <1>2, FS_Interval
  <2> QED BY <1>2, <2>1, FS_Subset
<1> HIDE DEF places
<1>4. /\ p \in Seq(places) /\ DOMAIN p = 1..Len(p)
      /\ \A i, j \in DOMAIN p : p[i] = p[j] => i = j
      /\ \A c \in places : \E i \in DOMAIN p : p[i] = c
  BY <1>3, SeqOfSet
<1>5. DOMAIN r = DOMAIN p /\ \A k \in DOMAIN p : p[k] \in places /\ r[k] = q[p[k]]
  BY <1>1, <1>4
<1>6. \A i \in places : i \in DOMAIN q /\ q[i] \in (S \ A) \cup {Tick}
  BY <1>2 DEF places
<1>7. r \in Seq((S \ A) \cup {Tick})
  <2>1. Len(p) \in Nat
    BY <1>4
  <2>2. r \in [1..Len(p) -> (S \ A) \cup {Tick}]
    BY <1>1, <1>4, <1>5, <1>6
  <2> QED BY <2>1, <2>2
<1>8. \A i, j \in DOMAIN r : r[i] = r[j] => i = j
  BY <1>4, <1>5, <1>6 DEF Lists
<1>9. \A c \in S \ A : \E k \in DOMAIN r : r[k] = c
  <2> TAKE c \in S \ A
  <2>1. PICK i \in DOMAIN q : q[i] = c
    BY DEF Lists
  <2>2. i \in places
    BY <2>1 DEF places
  <2> QED BY <1>4, <1>5, <2>1, <2>2
<1>10. \A k \in DOMAIN r : \E i \in DOMAIN q : r[k] = q[i]
  BY <1>5, <1>6
<1> QED BY <1>7, <1>8, <1>9, <1>10 DEF Lists

----------------------------------------------------------------------------
(* The worker of a new connection.                                           *)

LEMMA LeastNumber ==
    ASSUME NEW S, S \subseteq Nat, S # {}
    PROVE  \E m \in S : \A n \in S : m <= n
<1>1. IsWellFoundedOn(OpToRel(<, Nat), Nat)
  BY NatLessThanWellFounded
<1>2. PICK m \in S : \A n \in S : ~(<<n, m>> \in OpToRel(<, Nat))
  BY <1>1, WFMin, Zenon
<1>3. ASSUME NEW i \in Nat, NEW j \in Nat, ~(<<i, j>> \in OpToRel(<, Nat)) PROVE j <= i
  BY <1>3 DEF OpToRel
<1> QED BY <1>2, <1>3

\* There is a first worker with the fewest connections.
LEMMA PickedIsWorker == Picked \in Workers
<1>1. \A w \in Workers : Length(w) \in Nat
  <2> TAKE w \in Workers
  <2>1. IsFiniteSet({c \in Conns : home[c] = w /\ state[c] \notin {"unmade", "gone"}})
    BY ServerAssumption, FS_Subset
  <2> QED BY <2>1, FS_CardinalityType DEF Length
<1>2. Workers \subseteq Nat /\ 0 \in Workers
  BY ServerAssumption DEF Workers
<1>3. PICK n \in {Length(w) : w \in Workers} : \A m \in {Length(w) : w \in Workers} :
      n <= m
  <2>1. {Length(w) : w \in Workers} \subseteq Nat /\ {Length(w) : w \in Workers} # {}
    BY <1>1, <1>2
  <2> QED BY <2>1, LeastNumber
<1>4. PICK w \in {v \in Workers : Length(v) = n} :
      \A v \in {v \in Workers : Length(v) = n} : w <= v
  <2>1. {v \in Workers : Length(v) = n} \subseteq Nat
        /\ {v \in Workers : Length(v) = n} # {}
    BY <1>2, <1>3
  <2> QED BY <2>1, LeastNumber
<1>5. \A v \in Workers : Length(w) < Length(v) \/ (Length(w) = Length(v) /\ w <= v)
  <2> TAKE v \in Workers
  <2>1. n <= Length(v) /\ n = Length(w) /\ n \in Nat /\ Length(v) \in Nat
    BY <1>1, <1>3, <1>4
  <2>2. Length(v) = n => w <= v
    BY <1>4
  <2> QED BY <2>1, <2>2
<1> QED BY <1>4, <1>5 DEF Picked

----------------------------------------------------------------------------
(* What the steps of a worker do to one connection.                          *)

\* The queue of w, and the place of c, after a callback or a handler of c.
LEMMA QueueStep ==
    ASSUME TypeOK, QueuesListPending, NEW w \in Workers, NEW c \in Conns, home[c] = w,
           NEW s, NEW q, home' = home,
           state' = [state EXCEPT ![c] = s], queue' = [queue EXCEPT ![w] = q],
           Lists(q, (Pending(w) \ {c}) \cup (IF s \in Queued THEN {c} ELSE {}))
    PROVE  QueuesListPending' /\ queue' \in [Workers -> Seq(Conns \cup {Tick})]
<1>1. /\ \A v \in Workers : v # w => Pending(v)' = Pending(v)
      /\ Pending(w)' = (Pending(w) \ {c}) \cup (IF s \in Queued THEN {c} ELSE {})
  BY DEF Pending, TypeOK
<1>2. queue'[w] = q /\ \A v \in Workers : v # w => queue'[v] = queue[v]
  BY DEF TypeOK
<1>3. QueuesListPending'
  <2>1. \A v \in Workers : Lists(queue'[v], Pending(v)')
    BY <1>1, <1>2 DEF QueuesListPending
  <2> QED BY <2>1 DEF QueuesListPending, Lists
<1>4. q \in Seq(Conns \cup {Tick})
  <2>1. (Pending(w) \ {c}) \cup (IF s \in Queued THEN {c} ELSE {})
        \cup {Tick} \subseteq Conns \cup {Tick}
    BY DEF Pending
  <2> QED BY <2>1, SeqMonotonic DEF Lists
<1> QED BY <1>3, <1>4 DEF TypeOK

\* The handler that runs on w: that of c, if c went on to one, or what it was.
LEMMA HandlerStep ==
    ASSUME TypeOK, HandlersRun, NEW w \in Workers, NEW c \in Conns, home[c] = w,
           NEW s, home' = home, state' = [state EXCEPT ![c] = s],
           \/ s = "handling" /\ running[w] = None /\ running' = [running EXCEPT ![w] = c]
           \/ s # "handling" /\ state[c] # "handling" /\ running' = running
           \/ s # "handling" /\ running[w] = c /\ running' = [running EXCEPT ![w] = None]
    PROVE  HandlersRun' /\ running' \in [Workers -> Conns \cup {None}]
<1>1. \A d \in Conns : state'[d] = IF d = c THEN s ELSE state[d]
  BY DEF TypeOK
<1>2. None \notin Conns
  BY ServerAssumption
<1>3. CASE s = "handling" /\ running[w] = None /\ running' = [running EXCEPT ![w] = c]
  BY <1>1, <1>2, <1>3 DEF HandlersRun, TypeOK
<1>4. CASE s # "handling" /\ state[c] # "handling" /\ running' = running
  BY <1>1, <1>4 DEF HandlersRun, TypeOK
<1>5. CASE s # "handling" /\ running[w] = c /\ running' = [running EXCEPT ![w] = None]
  BY <1>1, <1>2, <1>5 DEF HandlersRun, TypeOK
<1> QED BY <1>3, <1>4, <1>5

LEMMA AcceptorStep ==
    ASSUME TypeOK, AcceptorWaits, NEW c \in Conns, NEW s, next' = next,
           state' = [state EXCEPT ![c] = s], state[c] # "accepting", s # "accepting"
    PROVE  AcceptorWaits'
BY DEF AcceptorWaits, TypeOK

TimersType ==
    /\ taskId \in [Conns -> Nat]
    /\ highest \in [Workers -> Nat] /\ due \in [Workers -> Nat]

\* A new deadline is the only one of its connection, and takes nobody's place.
LEMMA DeadlineStarts ==
    ASSUME TypeOK, DeadlinesOwned, NEW w \in Workers, NEW c \in Conns, home[c] = w,
           NEW s \in Read, home' = home,
           state' = [state EXCEPT ![c] = s], StartDeadline(w, c)
    PROVE  DeadlinesOwned' /\ TimersType'
<1> DEFINE n == highest[w] + 1
           t == [i \in (DOMAIN tasks[w] \ {taskId[c]}) \cup {n} |-> IF i = n THEN c ELSE tasks[w][i]]
<1>1. /\ highest' = [highest EXCEPT ![w] = n] /\ highest'[w] = n /\ n \in Nat
      /\ taskId' = [taskId EXCEPT ![c] = n] /\ due' = due
  BY DEF StartDeadline, TypeOK
<1>2. tasks' = [tasks EXCEPT ![w] = t]
  BY <1>1 DEF StartDeadline
<1>3. DOMAIN t = (DOMAIN tasks[w] \ {taskId[c]}) \cup {n}
      /\ \A i \in DOMAIN t : t[i] = IF i = n THEN c ELSE tasks[w][i]
  OBVIOUS
<1> HIDE DEF t
<1>4. DOMAIN tasks' = Workers /\ tasks'[w] = t
      /\ \A v \in Workers : v # w => tasks'[v] = tasks[v]
  BY <1>2 DEF DeadlinesOwned
<1>5. \A i \in DOMAIN tasks[w] : tasks[w][i] = c => i = taskId[c]
  BY DEF DeadlinesOwned
<1>6. \A v \in Workers : v # w => \A i \in DOMAIN tasks[v] : tasks[v][i] # c
  BY DEF DeadlinesOwned
<1>7. \A d \in Conns : /\ state'[d] = IF d = c THEN s ELSE state[d]
                       /\ taskId'[d] = IF d = c THEN n ELSE taskId[d]
  BY <1>1 DEF TypeOK
<1>8. \A v \in Workers : highest'[v] = IF v = w THEN n ELSE highest[v]
  BY <1>1 DEF TypeOK
<1>9. ASSUME NEW i \in DOMAIN t
      PROVE  /\ i \in 1..n /\ t[i] \in Conns /\ home[t[i]] = w
             /\ taskId'[t[i]] = i /\ state'[t[i]] \in Read
  <2>1. CASE i = n
    <3>1. t[i] = c /\ i \in 1..n
      BY <1>1, <1>3, <2>1 DEF TypeOK
    <3> QED BY <3>1, <1>7, <2>1
  <2>2. CASE i # n
    <3>1. i \in DOMAIN tasks[w] /\ i # taskId[c] /\ t[i] = tasks[w][i]
      BY <1>3, <2>2
    <3>2. i \in 1..highest[w] /\ highest[w] \in Nat
      BY <3>1 DEF DeadlinesOwned, TypeOK
    <3>3. i \in 1..n
      BY <3>2
    <3>4. t[i] # c
      BY <3>1, <1>5
    <3> QED BY <3>1, <3>3, <3>4, <1>7 DEF DeadlinesOwned
  <2> QED BY <2>1, <2>2
<1>10. ASSUME NEW v \in Workers, v # w, NEW i \in DOMAIN tasks[v]
       PROVE  /\ i \in 1..highest'[v] /\ tasks[v][i] \in Conns /\ home[tasks[v][i]] = v
              /\ taskId'[tasks[v][i]] = i /\ state'[tasks[v][i]] \in Read
  BY <1>6, <1>7, <1>8, <1>10 DEF DeadlinesOwned
<1>11. DeadlinesOwned'
  BY <1>1, <1>4, <1>9, <1>10 DEF DeadlinesOwned
<1> QED BY <1>1, <1>11 DEF TypeOK, TimersType

\* A connection whose deadline is cancelled has none.
LEMMA DeadlineCancelled ==
    ASSUME TypeOK, DeadlinesOwned, NEW w \in Workers, NEW c \in Conns, home[c] = w,
           NEW s, home' = home, state' = [state EXCEPT ![c] = s], CancelDeadline(w, c)
    PROVE  DeadlinesOwned' /\ TimersType'
<1> DEFINE t == Without(tasks[w], {taskId[c]})
<1>1. tasks' = [tasks EXCEPT ![w] = t] /\ UNCHANGED <<taskId, highest, due>>
  BY DEF CancelDeadline
<1>2. DOMAIN t = DOMAIN tasks[w] \ {taskId[c]} /\ \A i \in DOMAIN t : t[i] = tasks[w][i]
  BY DEF Without
<1> HIDE DEF t
<1>3. DOMAIN tasks' = Workers /\ tasks'[w] = t
      /\ \A v \in Workers : v # w => tasks'[v] = tasks[v]
  BY <1>1 DEF DeadlinesOwned
<1>4. \A v \in Workers : \A i \in DOMAIN tasks'[v] :
          i \in DOMAIN tasks[v] /\ tasks'[v][i] = tasks[v][i] /\ tasks[v][i] # c
  BY <1>2, <1>3 DEF DeadlinesOwned
<1>5. \A d \in Conns : d # c => state'[d] = state[d]
  BY DEF TypeOK
<1>6. DeadlinesOwned'
  BY <1>1, <1>3, <1>4, <1>5 DEF DeadlinesOwned
<1> QED BY <1>1, <1>6 DEF TypeOK, TimersType

----------------------------------------------------------------------------
(* Every step keeps the invariant.                                           *)

\* A connection of w that goes on, and the rest of the queue of w.
OnWorker(w, c, left, rest) ==
    /\ home[c] = w /\ state[c] \in Queued \cup {"handling"}
    /\ left \in Seq(Chunks) /\ Lists(rest, Pending(w) \ {c})

\* What running becomes when c leaves its callback or handler without a new one.
LeavesHandler(w, c) ==
    \/ state[c] # "handling" /\ running' = running
    \/ running[w] = c /\ running' = [running EXCEPT ![w] = None]

\* c is not named in a list of the others.
LEMMA NotInRest ==
    ASSUME NEW w \in Workers, NEW c \in Conns, NEW rest, Lists(rest, Pending(w) \ {c})
    PROVE  \A i \in DOMAIN rest : rest[i] # c
<1>1. \A i \in DOMAIN rest : rest[i] \in (Pending(w) \ {c}) \cup {Tick}
  BY ListsDomain
<1> QED BY <1>1, ServerAssumption

LEMMA ReadOnStep ==
    ASSUME ServerInv, NEW w \in Workers, NEW c \in Conns, NEW left, NEW rest,
           OnWorker(w, c, left, rest), ReadOn(w, c, left, rest), LeavesHandler(w, c),
           UNCHANGED <<home, sent, next>>
    PROVE  ServerInv'
<1>0. TypeOK /\ QueuesListPending /\ HandlersRun /\ AcceptorWaits /\ ReadyHasData
      /\ DeadlinesOwned
  BY DEF ServerInv
<1>1. PICK s \in {"reading", "got"}, q \in {rest, Append(rest, c)} :
          /\ state' = [state EXCEPT ![c] = s] /\ queue' = [queue EXCEPT ![w] = q]
          /\ IF s = "got" THEN q = Append(rest, c) ELSE q = rest
  BY DEF ReadOn, DoRead
<1>2. Lists(q, (Pending(w) \ {c}) \cup (IF s \in Queued THEN {c} ELSE {}))
  <2>1. CASE s = "reading"
    BY <1>1, <2>1 DEF OnWorker, Queued
  <2>2. CASE s = "got"
    <3>1. Lists(Append(rest, c), ((Pending(w) \ {c}) \cup {c}) \ {Tick})
      BY NotInRest, ListsAppend DEF OnWorker
    <3>2. ((Pending(w) \ {c}) \cup {c}) \ {Tick} = (Pending(w) \ {c}) \cup {c}
      BY ServerAssumption DEF Pending
    <3> QED BY <1>1, <2>2, <3>1, <3>2 DEF Queued
  <2> QED BY <1>1, <2>1, <2>2
<1>3. QueuesListPending' /\ queue' \in [Workers -> Seq(Conns \cup {Tick})]
  BY <1>0, <1>1, <1>2, QueueStep DEF OnWorker
<1>4. HandlersRun' /\ running' \in [Workers -> Conns \cup {None}]
  BY <1>0, <1>1, HandlerStep DEF OnWorker, LeavesHandler
<1>5. AcceptorWaits'
  BY <1>0, <1>1, AcceptorStep DEF OnWorker, Queued
<1>6. DeadlinesOwned' /\ TimersType'
  BY <1>0, <1>1, DeadlineStarts DEF OnWorker, ReadOn, Read
<1>7. inbox' \in [Conns -> Seq(Chunks)] /\ got' \in [Conns -> Chunks]
      /\ \A d \in Conns : d # c => inbox'[d] = inbox[d]
  <2>1. inbox \in [Conns -> Seq(Chunks)] /\ got \in [Conns -> Chunks]
    BY <1>0 DEF TypeOK
  <2>2. PICK l \in Seq(Chunks), g \in Chunks :
            inbox' = [inbox EXCEPT ![c] = l] /\ got' = [got EXCEPT ![c] = g]
    <3>1. CASE left = <<>>
      <4>1. left \in Seq(Chunks) /\ "end" \in Chunks
        BY DEF OnWorker, Chunks
      <4> QED BY <3>1, <4>1 DEF ReadOn, DoRead
    <3>2. CASE left # <<>>
      <4>1. Head(left) \in Chunks /\ Tail(left) \in Seq(Chunks)
        BY <3>2 DEF OnWorker
      <4> QED BY <3>2, <4>1 DEF ReadOn, DoRead
    <3> QED BY <3>1, <3>2
  <2> QED BY <2>1, <2>2
<1>8. state' \in [Conns -> States] /\ \A d \in Conns : d # c => state'[d] = state[d]
  BY <1>0, <1>1 DEF TypeOK, States
<1>9. state'[c] # "ready"
  BY <1>0, <1>1 DEF TypeOK
<1>10. ReadyHasData'
  BY <1>0, <1>7, <1>8, <1>9 DEF ReadyHasData
<1>11. TypeOK'
  BY <1>0, <1>3, <1>4, <1>6, <1>7, <1>8 DEF TypeOK, TimersType, DeadlinesOwned, ReadOn
<1> QED BY <1>3, <1>4, <1>5, <1>6, <1>10, <1>11 DEF ServerInv

LEMMA DestroyStep ==
    ASSUME ServerInv, NEW w \in Workers, NEW c \in Conns, NEW left, NEW rest,
           OnWorker(w, c, left, rest), Destroy(w, c, rest), LeavesHandler(w, c),
           UNCHANGED <<home, sent, next>>
    PROVE  ServerInv'
<1>0. TypeOK /\ QueuesListPending /\ HandlersRun /\ AcceptorWaits /\ ReadyHasData
      /\ DeadlinesOwned
  BY DEF ServerInv
<1>1. state' = [state EXCEPT ![c] = "gone"] /\ queue' = [queue EXCEPT ![w] = rest]
  BY DEF Destroy
<1>2. Lists(rest, (Pending(w) \ {c}) \cup (IF "gone" \in Queued THEN {c} ELSE {}))
  BY DEF OnWorker, Queued
<1>3. QueuesListPending' /\ queue' \in [Workers -> Seq(Conns \cup {Tick})]
  BY <1>0, <1>1, <1>2, QueueStep DEF OnWorker
<1>4. HandlersRun' /\ running' \in [Workers -> Conns \cup {None}]
  BY <1>0, <1>1, HandlerStep DEF OnWorker, LeavesHandler
<1>5. AcceptorWaits'
  BY <1>0, <1>1, AcceptorStep DEF OnWorker, Queued
<1>6. DeadlinesOwned' /\ TimersType'
  BY <1>0, <1>1, DeadlineCancelled DEF OnWorker, Destroy
<1>7. /\ inbox' = [inbox EXCEPT ![c] = <<>>] /\ got' = [got EXCEPT ![c] = "end"]
      /\ open' = [open EXCEPT ![c] = FALSE]
  BY DEF Destroy
<1>8. state' \in [Conns -> States]
      /\ \A d \in Conns : state'[d] = IF d = c THEN "gone" ELSE state[d]
  BY <1>0, <1>1 DEF TypeOK, States
<1>9. ReadyHasData'
  BY <1>0, <1>7, <1>8 DEF ReadyHasData, TypeOK
<1>10. inbox' \in [Conns -> Seq(Chunks)] /\ got' \in [Conns -> Chunks]
  <2>1. <<>> \in Seq(Chunks) /\ "end" \in Chunks
    BY DEF Chunks
  <2> QED BY <1>0, <1>7, <2>1 DEF TypeOK
<1>11. TypeOK'
  BY <1>0, <1>3, <1>4, <1>6, <1>7, <1>8, <1>10 DEF TypeOK, TimersType, DeadlinesOwned
<1> QED BY <1>3, <1>4, <1>5, <1>6, <1>9, <1>11 DEF ServerInv

LEMMA HandleStep ==
    ASSUME ServerInv, NEW w \in Workers, NEW c \in Conns, NEW chunk \in Chunks, NEW left,
           NEW rest, OnWorker(w, c, left, rest), Handle(w, c, chunk, left, rest),
           running[w] = None, running' = [running EXCEPT ![w] = c],
           UNCHANGED <<home, sent, next>>
    PROVE  ServerInv'
<1>0. TypeOK /\ QueuesListPending /\ HandlersRun /\ AcceptorWaits /\ ReadyHasData
      /\ DeadlinesOwned
  BY DEF ServerInv
<1>1. state' = [state EXCEPT ![c] = "handling"] /\ queue' = [queue EXCEPT ![w] = rest]
  BY DEF Handle
<1>2. Lists(rest, (Pending(w) \ {c}) \cup (IF "handling" \in Queued THEN {c} ELSE {}))
  BY DEF OnWorker, Queued
<1>3. QueuesListPending' /\ queue' \in [Workers -> Seq(Conns \cup {Tick})]
  BY <1>0, <1>1, <1>2, QueueStep DEF OnWorker
<1>4. HandlersRun' /\ running' \in [Workers -> Conns \cup {None}]
  BY <1>0, <1>1, HandlerStep DEF OnWorker
<1>5. AcceptorWaits'
  BY <1>0, <1>1, AcceptorStep DEF OnWorker, Queued
<1>6. DeadlinesOwned' /\ TimersType'
  BY <1>0, <1>1, DeadlineCancelled DEF OnWorker, Handle
<1>7. /\ inbox' = [inbox EXCEPT ![c] = left] /\ got' = [got EXCEPT ![c] = chunk]
      /\ open' = open
  BY DEF Handle
<1>8. state' \in [Conns -> States]
      /\ \A d \in Conns : state'[d] = IF d = c THEN "handling" ELSE state[d]
  BY <1>0, <1>1 DEF TypeOK, States
<1>9. ReadyHasData'
  BY <1>0, <1>7, <1>8 DEF ReadyHasData, TypeOK
<1>10. TypeOK'
  BY <1>0, <1>3, <1>4, <1>6, <1>7, <1>8 DEF TypeOK, TimersType, DeadlinesOwned, OnWorker
<1> QED BY <1>3, <1>4, <1>5, <1>6, <1>9, <1>10 DEF ServerInv

LEMMA RunConnectionStep ==
    ASSUME ServerInv, NEW w \in Workers, RunConnection(w)
    PROVE  ServerInv'
<1> DEFINE c == Head(queue[w])
           rest == Tail(queue[w])
<1>0. TypeOK /\ QueuesListPending /\ HandlersRun /\ ReadyHasData
  BY DEF ServerInv
<1>1. /\ c \in Pending(w) /\ Lists(rest, Pending(w) \ {c})
      /\ running[w] = None /\ UNCHANGED <<home, sent, next>>
  <2>1. queue[w] # <<>> /\ Head(queue[w]) # Tick /\ Lists(queue[w], Pending(w))
    BY <1>0 DEF RunConnection, QueuesListPending
  <2>2. Head(queue[w]) \in Pending(w) \cup {Tick}
        /\ Lists(Tail(queue[w]), Pending(w) \ {Head(queue[w])})
    BY <2>1, ListsTail
  <2> QED BY <2>1, <2>2 DEF RunConnection, Idle
<1>2. c \in Conns /\ home[c] = w /\ state[c] \in Queued /\ inbox[c] \in Seq(Chunks)
  BY <1>0, <1>1 DEF Pending, TypeOK
<1>3. \/ state[c] = "start" /\ ReadOn(w, c, inbox[c], rest) /\ UNCHANGED running
      \/ state[c] = "abort" /\ Callback(w, c, "end", inbox[c], rest)
      \/ state[c] = "got" /\ Callback(w, c, got[c], inbox[c], rest)
      \/ state[c] = "ready" /\ Callback(w, c, Head(inbox[c]), Tail(inbox[c]), rest)
  BY DEF RunConnection
<1> HIDE DEF c, rest
<1>4. \A left \in Seq(Chunks) : OnWorker(w, c, left, rest)
  BY <1>1, <1>2 DEF OnWorker
<1>5. UNCHANGED running => LeavesHandler(w, c)
  BY <1>2 DEF LeavesHandler, Queued
<1>6. ASSUME NEW chunk \in Chunks, NEW left \in Seq(Chunks),
             Callback(w, c, chunk, left, rest)
      PROVE  ServerInv'
  <2>1. CASE Destroy(w, c, rest) /\ UNCHANGED running
    BY <2>1, <1>1, <1>2, <1>4, <1>5, DestroyStep
  <2>2. CASE ReadOn(w, c, left, rest) /\ UNCHANGED running
    BY <2>2, <1>1, <1>2, <1>4, <1>5, ReadOnStep
  <2>3. CASE Handle(w, c, chunk, left, rest) /\ running' = [running EXCEPT ![w] = c]
    BY <2>3, <1>1, <1>2, <1>4, HandleStep
  <2> QED BY <1>6, <2>1, <2>2, <2>3 DEF Callback
<1>7. state[c] = "ready" => Head(inbox[c]) \in Chunks /\ Tail(inbox[c]) \in Seq(Chunks)
  BY <1>0, <1>2 DEF ReadyHasData
<1>8. got[c] \in Chunks /\ "end" \in Chunks
  BY <1>0, <1>2 DEF TypeOK, Chunks
<1>9. CASE state[c] = "start" /\ ReadOn(w, c, inbox[c], rest) /\ UNCHANGED running
  BY <1>9, <1>1, <1>2, <1>4, <1>5, ReadOnStep
<1> QED BY <1>2, <1>3, <1>6, <1>7, <1>8, <1>9

LEMMA EndHandlerStep ==
    ASSUME ServerInv, NEW w \in Workers, EndHandler(w)
    PROVE  ServerInv'
<1> DEFINE c == running[w]
<1>0. TypeOK /\ QueuesListPending /\ HandlersRun
  BY DEF ServerInv
<1>1. c \in Conns /\ home[c] = w /\ state[c] = "handling" /\ inbox[c] \in Seq(Chunks)
  BY <1>0 DEF EndHandler, HandlersRun, TypeOK
<1>2. running' = [running EXCEPT ![w] = None] /\ UNCHANGED <<home, sent, next>>
      /\ (Destroy(w, c, queue[w]) \/ ReadOn(w, c, inbox[c], queue[w]))
  BY DEF EndHandler
<1>3. Lists(queue[w], Pending(w) \ {c})
  <2>1. Pending(w) \ {c} = Pending(w)
    BY <1>1 DEF Pending, Queued
  <2> QED BY <1>0, <2>1 DEF QueuesListPending
<1>4. OnWorker(w, c, inbox[c], queue[w]) /\ LeavesHandler(w, c)
  BY <1>1, <1>2, <1>3 DEF OnWorker, LeavesHandler
<1> HIDE DEF c
<1> QED BY <1>1, <1>2, <1>4, DestroyStep, ReadOnStep

LEMMA AcceptStep == ServerInv /\ Accept => ServerInv'
<1> SUFFICES ASSUME ServerInv, Accept PROVE ServerInv'
  OBVIOUS
<1>0. TypeOK /\ QueuesListPending /\ HandlersRun /\ AcceptorWaits /\ ReadyHasData
      /\ DeadlinesOwned
  BY DEF ServerInv
<1>a. PICK c \in Conns : c = next /\ state[c] = "accepting"
  BY <1>0 DEF Accept, TypeOK, AcceptorWaits
<1>b. PICK w \in Workers : w = home[c]
  BY <1>0 DEF TypeOK
<1>1. c \in Conns /\ w \in Workers /\ state[c] = "accepting"
  BY <1>a, <1>b
<1>2. /\ open' = [open EXCEPT ![c] = TRUE] /\ queue' = [queue EXCEPT ![w] = Append(@, c)]
      /\ UNCHANGED <<taskId, inbox, got, sent, running, tasks, highest, due>>
  BY <1>a, <1>b DEF Accept, timers
<1>t. /\ state \in [Conns -> States] /\ home \in [Conns -> Workers] /\ next \in Conns
      /\ "start" \in States /\ "accepting" \in States
  BY <1>0, <1>a DEF TypeOK, States
<1>3. /\ \A d \in Conns :
            \/ d = c /\ state'[d] = "start" /\ home'[d] = home[d] /\ next' # d
            \/ d # c /\ state[d] = "unmade" /\ state'[d] = "accepting"
                 /\ next' = d /\ home'[d] \in Workers
            \/ d # c /\ state'[d] = state[d] /\ home'[d] = home[d] /\ next' # d
      /\ state' \in [Conns -> States] /\ home' \in [Conns -> Workers]
      /\ next' \in Conns \cup {None}
  <2>1. CASE \E d \in Conns :
                /\ state[d] = "unmade"
                /\ state' = [state EXCEPT ![next] = "start", ![d] = "accepting"]
                /\ home' = [home EXCEPT ![d] = Picked]
                /\ next' = d
    <3>1. PICK d \in Conns :
                /\ state[d] = "unmade"
                /\ state' = [state EXCEPT ![c] = "start", ![d] = "accepting"]
                /\ home' = [home EXCEPT ![d] = Picked]
                /\ next' = d
      BY <1>a, <2>1
    <3>2. d # c /\ Picked \in Workers
      BY <1>1, <3>1, PickedIsWorker
    <3>3. /\ state' \in [Conns -> States] /\ home' \in [Conns -> Workers]
          /\ \A e \in Conns :
               /\ state'[e] = IF e = d THEN "accepting"
                              ELSE IF e = c THEN "start" ELSE state[e]
               /\ home'[e] = IF e = d THEN Picked ELSE home[e]
      BY <1>t, <1>1, <3>1, <3>2
    <3> QED BY <3>1, <3>2, <3>3
  <2>2. CASE /\ \A d \in Conns : state[d] # "unmade"
             /\ state' = [state EXCEPT ![next] = "start"]
             /\ next' = None
             /\ UNCHANGED home
    <3>1. state' = [state EXCEPT ![c] = "start"] /\ next' = None /\ home' = home
      BY <1>a, <2>2
    <3>2. state' \in [Conns -> States]
          /\ \A e \in Conns : state'[e] = IF e = c THEN "start" ELSE state[e]
      BY <1>t, <1>1, <3>1
    <3> QED BY <1>t, <3>1, <3>2, ServerAssumption
  <2> QED BY <2>1, <2>2 DEF Accept
<1>4. /\ Pending(w)' = Pending(w) \cup {c} /\ c \notin Pending(w)
      /\ \A v \in Workers : v # w => Pending(v)' = Pending(v)
  <2>1. home[c] = w
    BY <1>b
  <2>2. \A v \in Workers, d \in Conns : d \in Pending(v)'
        <=> d \in Pending(v) \/ (d = c /\ v = w)
    BY <1>1, <1>3, <2>1 DEF Pending, Queued
  <2>3. \A v : Pending(v)' \subseteq Conns /\ Pending(v) \subseteq Conns
    BY DEF Pending
  <2>4. c \notin Pending(w)
    BY <1>1 DEF Pending, Queued
  <2>5. Pending(w)' = Pending(w) \cup {c}
    <3>1. \A d : d \in Pending(w)' <=> d \in Pending(w) \/ d = c
      BY <1>1, <2>2, <2>3
    <3> QED BY <3>1
  <2>6. ASSUME NEW v \in Workers, v # w PROVE Pending(v)' = Pending(v)
    <3>1. \A d : d \in Pending(v)' <=> d \in Pending(v)
      BY <2>2, <2>3, <2>6
    <3> QED BY <3>1
  <2> QED BY <2>4, <2>5, <2>6
<1>5. Lists(Append(queue[w], c), Pending(w)')
  <2>1. Lists(queue[w], Pending(w))
    BY <1>0, <1>1 DEF QueuesListPending
  <2>2. \A i \in DOMAIN queue[w] : queue[w][i] # c
    BY <2>1, <1>1, <1>4, ListsDomain, ServerAssumption
  <2>3. (Pending(w) \cup {c}) \ {Tick} = Pending(w)'
    BY <1>1, <1>4, ServerAssumption DEF Pending
  <2> QED BY <2>1, <2>2, <2>3, ListsAppend
<1>6. QueuesListPending' /\ queue' \in [Workers -> Seq(Conns \cup {Tick})]
  <2>1. queue'[w] = Append(queue[w], c)
        /\ \A v \in Workers : v # w => queue'[v] = queue[v]
    BY <1>0, <1>1, <1>2 DEF TypeOK
  <2>2. ASSUME NEW v \in Workers PROVE Lists(queue'[v], Pending(v)')
    <3>1. CASE v = w
      BY <3>1, <2>1, <1>5
    <3>2. CASE v # w
      <4>1. queue'[v] = queue[v] /\ Pending(v)' = Pending(v)
        BY <3>2, <2>1, <1>4
      <4> QED BY <4>1, <1>0 DEF QueuesListPending
    <3> QED BY <3>1, <3>2
  <2>3. Append(queue[w], c) \in Seq(Conns \cup {Tick})
    BY <1>0, <1>1 DEF TypeOK
  <2> QED BY <2>2, <2>3, <1>0, <1>2 DEF QueuesListPending, Lists, TypeOK
<1>7. HandlersRun'
  BY <1>0, <1>1, <1>2, <1>3 DEF HandlersRun
<1>8. AcceptorWaits' /\ ReadyHasData'
  <2>1. \A d \in Conns : d # c => next # d
    BY <1>a
  <2>2. AcceptorWaits'
    BY <1>0, <1>3, <2>1 DEF AcceptorWaits
  <2> QED BY <1>0, <1>2, <1>3, <2>2 DEF ReadyHasData
<1>9. DeadlinesOwned'
  <2>1. \A d \in Conns : state[d] \in Read => state'[d] = state[d] /\ home'[d] = home[d]
    BY <1>1, <1>3 DEF Read
  <2> QED BY <2>1, <1>0, <1>2 DEF DeadlinesOwned
<1>10. TypeOK'
  BY <1>0, <1>1, <1>2, <1>3, <1>6 DEF TypeOK
<1> QED BY <1>6, <1>7, <1>8, <1>9, <1>10 DEF ServerInv

LEMMA ClientSendsStep == \A c \in Conns : ServerInv /\ ClientSends(c) => ServerInv'
<1> SUFFICES ASSUME NEW c \in Conns, ServerInv, ClientSends(c) PROVE ServerInv'
  OBVIOUS
<1>0. TypeOK /\ QueuesListPending /\ HandlersRun /\ AcceptorWaits /\ ReadyHasData
      /\ DeadlinesOwned
  BY DEF ServerInv
<1>1. /\ UNCHANGED <<state, home, open, taskId, got, next, queue, running, tasks, highest, due>>
      /\ sent' = [sent EXCEPT ![c] = @ + 1] /\ sent[c] < MaxChunks
  BY DEF ClientSends, timers
<1>2. PICK chunk \in Chunks : inbox' = [inbox EXCEPT ![c] = Append(@, chunk)]
  BY DEF ClientSends
<1>3. inbox' \in [Conns -> Seq(Chunks)] /\ inbox'[c] # <<>>
      /\ \A d \in Conns : d # c => inbox'[d] = inbox[d]
  <2>1. Append(inbox[c], chunk) \in Seq(Chunks) /\ Append(inbox[c], chunk) # <<>>
    <3>1. inbox[c] \in Seq(Chunks)
      BY <1>0 DEF TypeOK
    <3> QED BY <3>1, AppendProperties
  <2> QED BY <2>1, <1>0, <1>2 DEF TypeOK
<1>4. sent' \in [Conns -> 0..MaxChunks]
  BY <1>0, <1>1, ServerAssumption DEF TypeOK
<1>5. TypeOK' /\ ReadyHasData'
  BY <1>0, <1>1, <1>3, <1>4 DEF TypeOK, ReadyHasData
<1>6. QueuesListPending' /\ HandlersRun' /\ AcceptorWaits' /\ DeadlinesOwned'
  <2>1. \A v : Pending(v)' = Pending(v)
    BY <1>1 DEF Pending
  <2>2. QueuesListPending'
    BY <1>0, <1>1, <2>1 DEF QueuesListPending, Lists
  <2> QED BY <1>0, <1>1, <2>2 DEF HandlersRun, AcceptorWaits, DeadlinesOwned
<1> QED BY <1>5, <1>6 DEF ServerInv

LEMMA ElapseStep == \A w \in Workers : ServerInv /\ Elapse(w) => ServerInv'
<1> SUFFICES ASSUME NEW w \in Workers, ServerInv, Elapse(w) PROVE ServerInv'
  OBVIOUS
<1>0. TypeOK /\ QueuesListPending /\ HandlersRun /\ AcceptorWaits /\ ReadyHasData
      /\ DeadlinesOwned
  BY DEF ServerInv
<1>1. UNCHANGED <<state, home, open, taskId, inbox, got, sent, next, queue, running, tasks, highest>>
  BY DEF Elapse, conns
<1>2. due' \in [Workers -> Nat]
  <2>1. PICK i \in DOMAIN tasks[w] : due' = [due EXCEPT ![w] = i]
    BY DEF Elapse
  <2>2. i \in Nat
    BY <1>0 DEF TypeOK
  <2> QED BY <2>1, <2>2, <1>0 DEF TypeOK
<1>3. TypeOK'
  BY <1>0, <1>1, <1>2 DEF TypeOK
<1>4. QueuesListPending' /\ HandlersRun' /\ AcceptorWaits' /\ DeadlinesOwned'
      /\ ReadyHasData'
  <2>1. \A v : Pending(v)' = Pending(v)
    BY <1>1 DEF Pending
  <2>2. QueuesListPending'
    BY <1>0, <1>1, <2>1 DEF QueuesListPending, Lists
  <2> QED BY <1>0, <1>1, <2>2 DEF HandlersRun, AcceptorWaits, DeadlinesOwned, ReadyHasData
<1> QED BY <1>3, <1>4 DEF ServerInv

LEMMA PollStep == \A w \in Workers : ServerInv /\ Poll(w) => ServerInv'
<1> SUFFICES ASSUME NEW w \in Workers, ServerInv, Poll(w) PROVE ServerInv'
  OBVIOUS
<1>0. TypeOK /\ QueuesListPending /\ HandlersRun /\ AcceptorWaits /\ ReadyHasData
      /\ DeadlinesOwned
  BY DEF ServerInv
<1>1. PICK s \in SetToSeqs(HasData(w)), timer \in {<<>>, <<Tick>>} :
        /\ Contains(queue[w], Tick) => timer = <<>>
        /\ queue' = [queue EXCEPT ![w] = @ \o s \o timer]
  BY DEF Poll
<1>2. /\ state' = [c \in Conns |-> IF c \in HasData(w) THEN "ready" ELSE state[c]]
      /\ UNCHANGED <<home, open, taskId, inbox, got, sent, next, running, tasks, highest, due>>
  BY DEF Poll, timers
<1>3. \A c \in HasData(w) : c \in Conns /\ home[c] = w /\ state[c] = "reading"
      /\ inbox[c] # <<>>
  BY DEF HasData
<1>4. /\ Pending(w)' = Pending(w) \cup HasData(w) /\ Pending(w) \cap HasData(w) = {}
      /\ \A v \in Workers : v # w => Pending(v)' = Pending(v)
  BY <1>2, <1>3 DEF Pending, Queued
<1>5. IsFiniteSet(HasData(w)) /\ Tick \notin HasData(w) /\ Tick \notin Pending(w)'
  BY ServerAssumption, FS_Subset DEF HasData, Pending
<1>6. Lists(queue[w], Pending(w))
  BY <1>0 DEF QueuesListPending
<1> DEFINE q == queue[w] \o s
<1>7. Lists(q, Pending(w)')
  BY <1>4, <1>5, <1>6, ListsConcat
<1>8. Lists(q \o timer, Pending(w)')
  <2>1. q \in Seq(Pending(w)' \cup {Tick})
    BY <1>7 DEF Lists
  <2>2. CASE timer = <<>>
    <3>1. q \o <<>> = q
      BY <2>1, ConcatEmptySeq
    <3> QED BY <1>7, <2>2, <3>1
  <2>3. CASE timer = <<Tick>> /\ ~Contains(queue[w], Tick)
    <3>1. \A i \in DOMAIN queue[w] : queue[w][i] # Tick
      BY <2>3, <1>6, ListsDomain DEF Contains
    <3>2. \A i \in DOMAIN s : s[i] # Tick
      <4>1. s \in Seq(HasData(w))
        BY <1>5, SeqOfSet
      <4>2. \A i \in DOMAIN s : s[i] \in HasData(w)
        BY <4>1
      <4> QED BY <4>2, <1>5
    <3>3. \A i \in DOMAIN q : q[i] # Tick
      <4> DEFINE U == Pending(w)' \cup {Tick}
      <4>1. queue[w] \in Seq(U) /\ s \in Seq(U)
        <5>1. queue[w] \in Seq(Pending(w) \cup {Tick}) /\ s \in Seq(HasData(w))
          BY <1>5, <1>6, SeqOfSet DEF Lists
        <5>2. Pending(w) \cup {Tick} \subseteq U /\ HasData(w) \subseteq U
          BY <1>4
        <5> HIDE DEF U
        <5> QED BY <5>1, <5>2, SeqMonotonic
      <4> HIDE DEF U
      <4>2. /\ DOMAIN q = 1..(Len(queue[w]) + Len(s))
            /\ Len(queue[w]) \in Nat /\ Len(s) \in Nat
            /\ DOMAIN queue[w] = 1..Len(queue[w]) /\ DOMAIN s = 1..Len(s)
        BY <4>1
      <4>3. \A i \in 1..(Len(queue[w]) + Len(s)) :
                q[i] = IF i <= Len(queue[w]) THEN queue[w][i] ELSE s[i - Len(queue[w])]
        BY <4>1, ConcatProperties
      <4> HIDE DEF q
      <4>4. ASSUME NEW i \in DOMAIN q PROVE q[i] # Tick
        <5>1. CASE i <= Len(queue[w])
          BY <5>1, <3>1, <4>2, <4>3
        <5>2. CASE ~(i <= Len(queue[w]))
          <6>1. i - Len(queue[w]) \in DOMAIN s /\ q[i] = s[i - Len(queue[w])]
            BY <5>2, <4>2, <4>3
          <6> QED BY <6>1, <3>2
        <5> QED BY <5>1, <5>2
      <4> QED BY <4>4
    <3>4. Lists(Append(q, Tick), (Pending(w)' \cup {Tick}) \ {Tick})
      <4> HIDE DEF q
      <4> QED BY <1>7, <3>3, ListsAppend
    <3>5. Append(q, Tick) = q \o <<Tick>>
      <4> HIDE DEF q
      <4> QED BY <2>1, AppendIsConcat
    <3>6. (Pending(w)' \cup {Tick}) \ {Tick} = Pending(w)'
      BY <1>5
    <3> QED BY <2>3, <3>4, <3>5, <3>6
  <2> QED BY <1>1, <2>2, <2>3
<1>9. QueuesListPending' /\ queue' \in [Workers -> Seq(Conns \cup {Tick})]
  <2>1. queue'[w] = q \o timer /\ \A v \in Workers : v # w => queue'[v] = queue[v]
    BY <1>0, <1>1 DEF TypeOK
  <2> HIDE DEF q
  <2>2. \A v \in Workers : Lists(queue'[v], Pending(v)')
    BY <2>1, <1>0, <1>4, <1>8 DEF QueuesListPending
  <2>3. Pending(w)' \cup {Tick} \subseteq Conns \cup {Tick}
    BY DEF Pending
  <2>4. q \o timer \in Seq(Conns \cup {Tick})
    BY <1>8, <2>3, SeqMonotonic DEF Lists
  <2>5. queue' = [queue EXCEPT ![w] = q \o timer]
    BY <1>1 DEF q
  <2> QED BY <2>2, <2>4, <2>5, <1>0 DEF QueuesListPending, Lists, TypeOK
<1>10. HandlersRun' /\ AcceptorWaits' /\ ReadyHasData'
  BY <1>0, <1>2, <1>3 DEF HandlersRun, AcceptorWaits, ReadyHasData
<1>11. DeadlinesOwned'
  BY <1>0, <1>2, <1>3 DEF DeadlinesOwned, Read
<1>12. TypeOK'
  BY <1>0, <1>2, <1>3, <1>9 DEF TypeOK, States
<1> QED BY <1>9, <1>10, <1>11, <1>12 DEF ServerInv

LEMMA RunTickStep == \A w \in Workers : ServerInv /\ RunTick(w) => ServerInv'
<1> SUFFICES ASSUME NEW w \in Workers, ServerInv, RunTick(w) PROVE ServerInv'
  OBVIOUS
<1> DEFINE fired == {i \in DOMAIN tasks[w] : i <= due[w]}
           cut == {tasks[w][i] : i \in fired}
           aborted == {c \in cut : state[c] \in {"reading", "ready"}}
           left == Without(tasks[w], fired)
<1>0. TypeOK /\ QueuesListPending /\ HandlersRun /\ AcceptorWaits /\ ReadyHasData
      /\ DeadlinesOwned
  BY DEF ServerInv
<1>1. /\ queue[w] # <<>> /\ Head(queue[w]) = Tick
      /\ UNCHANGED <<home, taskId, inbox, got, sent, next, running>>
      /\ open' = [c \in Conns |-> open[c] /\ c \notin cut]
      /\ state' = [c \in Conns |-> IF c \in aborted THEN "abort" ELSE state[c]]
      /\ tasks' = [tasks EXCEPT ![w] = left]
      /\ highest' = [highest EXCEPT ![w] = Renewed(DOMAIN left, @)]
      /\ due' = [due EXCEPT ![w] = Renewed(DOMAIN left, @)]
  BY DEF RunTick
<1>2. PICK waiting \in Staying(Tail(queue[w]), aborted), s \in SetToSeqs(aborted) :
        queue' = [queue EXCEPT ![w] = waiting \o s]
  BY DEF RunTick
<1>3. \A c \in aborted : c \in Conns /\ home[c] = w /\ state[c] \in {"reading", "ready"}
  BY <1>0 DEF DeadlinesOwned
<1>4. DOMAIN left = DOMAIN tasks[w] \ fired
      /\ \A i \in DOMAIN left : left[i] = tasks[w][i]
  BY DEF Without
<1> HIDE DEF fired, cut, aborted, left
<1>5. IsFiniteSet(aborted) /\ Tick \notin aborted
  <2>1. aborted \subseteq Conns
    BY <1>3
  <2> QED BY <2>1, <1>3, ServerAssumption, FS_Subset
<1>6. /\ Pending(w)' = (Pending(w) \ aborted) \cup aborted
      /\ \A v \in Workers : v # w => Pending(v)' = Pending(v)
  BY <1>1, <1>3 DEF Pending, Queued
<1>7. Lists(Tail(queue[w]), Pending(w))
  <2>1. Lists(queue[w], Pending(w))
    BY <1>0 DEF QueuesListPending
  <2>2. Lists(Tail(queue[w]), Pending(w) \ {Tick})
    BY <1>1, <2>1, ListsTail
  <2>3. Pending(w) \ {Tick} = Pending(w)
    BY ServerAssumption DEF Pending
  <2> QED BY <2>2, <2>3
<1>8. Lists(waiting \o s, Pending(w)')
  <2>1. Lists(waiting, Pending(w) \ aborted)
    BY <1>5, <1>7, ListsStaying
  <2>2. (Pending(w) \ aborted) \cap aborted = {}
    OBVIOUS
  <2>3. Lists(waiting \o s, (Pending(w) \ aborted) \cup aborted)
    BY <1>5, <2>1, <2>2, ListsConcat
  <2> QED BY <1>6, <2>3
<1>9. QueuesListPending' /\ queue' \in [Workers -> Seq(Conns \cup {Tick})]
  <2>1. queue'[w] = waiting \o s /\ \A v \in Workers : v # w => queue'[v] = queue[v]
    BY <1>0, <1>2 DEF TypeOK
  <2>2. ASSUME NEW v \in Workers PROVE Lists(queue'[v], Pending(v)')
    <3>1. CASE v = w
      BY <3>1, <2>1, <1>8
    <3>2. CASE v # w
      BY <3>2, <2>1, <1>0, <1>6 DEF QueuesListPending
    <3> QED BY <3>1, <3>2
  <2>3. Pending(w)' \cup {Tick} \subseteq Conns \cup {Tick}
    BY DEF Pending
  <2>4. waiting \o s \in Seq(Conns \cup {Tick})
    BY <1>8, <2>3, SeqMonotonic DEF Lists
  <2> QED BY <2>2, <2>4, <1>0, <1>2 DEF QueuesListPending, Lists, TypeOK
<1>10. HandlersRun' /\ AcceptorWaits' /\ ReadyHasData'
  BY <1>0, <1>1, <1>3 DEF HandlersRun, AcceptorWaits, ReadyHasData
<1>11. \A v \in Workers :
          /\ highest'[v] \in Nat /\ due'[v] \in Nat
          /\ DOMAIN tasks'[v] \subseteq DOMAIN tasks[v]
          /\ \A i \in DOMAIN tasks'[v] : i \in 1..highest'[v]
               /\ tasks'[v][i] = tasks[v][i]
  <2>1. \A i \in DOMAIN left : i \in DOMAIN tasks[w] /\ i \in 1..highest[w]
        /\ left[i] = tasks[w][i]
    BY <1>0, <1>4 DEF DeadlinesOwned
  <2>2. tasks'[w] = left /\ \A v \in Workers : v # w => tasks'[v] = tasks[v]
    BY <1>0, <1>1 DEF DeadlinesOwned
  <2>3. /\ highest'[w] = Renewed(DOMAIN left, highest[w])
        /\ due'[w] = Renewed(DOMAIN left, due[w])
        /\ \A v \in Workers : v # w => highest'[v] = highest[v] /\ due'[v] = due[v]
        /\ \A v \in Workers : highest[v] \in Nat /\ due[v] \in Nat
    BY <1>0, <1>1 DEF TypeOK
  <2>4. DOMAIN left # {} => highest'[w] = highest[w]
    BY <2>3 DEF Renewed
  <2>5. highest'[w] \in Nat /\ due'[w] \in Nat
    BY <2>3 DEF Renewed
  <2>6. \A v \in Workers : v # w => \A i \in DOMAIN tasks[v] : i \in 1..highest[v]
    BY <1>0 DEF DeadlinesOwned
  <2> TAKE v \in Workers
  <2>7. CASE v = w
    BY <2>1, <2>2, <2>4, <2>5, <2>7
  <2>8. CASE v # w
    BY <2>2, <2>3, <2>6, <2>8
  <2> QED BY <2>7, <2>8
<1>12. DOMAIN tasks' = Workers /\ highest' \in [Workers -> Nat]
       /\ due' \in [Workers -> Nat]
  <2>1. /\ highest' = [v \in Workers |-> highest'[v]]
        /\ due' = [v \in Workers |-> due'[v]]
        /\ DOMAIN tasks' = Workers
    BY <1>0, <1>1 DEF TypeOK, DeadlinesOwned
  <2>2. \A v \in Workers : highest'[v] \in Nat /\ due'[v] \in Nat
    BY <1>11
  <2> QED BY <2>1, <2>2
<1>13. \A c \in Conns : state[c] \in Read => state'[c] \in Read
  BY <1>1 DEF Read
<1>14. DeadlinesOwned'
  <2>1. /\ DOMAIN tasks' = Workers
        /\ \A v \in Workers : \A i \in DOMAIN tasks'[v] :
              /\ i \in 1..highest'[v] /\ tasks'[v][i] \in Conns
              /\ home[tasks'[v][i]] = v /\ taskId[tasks'[v][i]] = i
              /\ state'[tasks'[v][i]] \in Read
    BY <1>0, <1>11, <1>12, <1>13 DEF DeadlinesOwned
  <2> QED BY <1>1, <2>1 DEF DeadlinesOwned
<1>15. TypeOK'
  <2>1. state' \in [Conns -> States] /\ open' \in [Conns -> BOOLEAN]
    BY <1>0, <1>1 DEF TypeOK, States
  <2>2. \A v \in Workers : /\ DOMAIN tasks'[v] \subseteq 1..highest'[v]
                           /\ \A i \in DOMAIN tasks'[v] : tasks'[v][i] \in Conns
    BY <1>14 DEF DeadlinesOwned
  <2> QED BY <1>0, <1>1, <1>9, <1>12, <2>1, <2>2 DEF TypeOK
<1> QED BY <1>9, <1>10, <1>14, <1>15 DEF ServerInv

LEMMA ServerInit == Init => ServerInv
<1> SUFFICES ASSUME Init PROVE ServerInv
  OBVIOUS
<1>1. 0 \in Workers /\ None \notin Conns /\ Tick \notin Conns /\ MaxChunks \in Nat
  BY ServerAssumption DEF Workers
<1>2. \A w \in Workers : Pending(w) = {}
  BY DEF Init, Pending, Queued
<1>3. Lists(<<>>, {})
  BY DEF Lists
<1>4. QueuesListPending
  <2>1. \A w \in Workers : queue[w] = <<>>
    BY DEF Init
  <2> QED BY <1>2, <1>3, <2>1 DEF QueuesListPending
<1>5. \A w \in Workers : tasks[w] = <<>> /\ DOMAIN tasks[w] = {}
  BY DEF Init
<1>6. DOMAIN tasks = Workers
  BY DEF Init
<1>7. DeadlinesOwned
  BY <1>5, <1>6 DEF DeadlinesOwned
<1>8. HandlersRun /\ AcceptorWaits /\ ReadyHasData
  BY <1>1 DEF Init, HandlersRun, AcceptorWaits, ReadyHasData
<1>9. TypeOK
  <2>1. inbox \in [Conns -> Seq(Chunks)] /\ queue \in [Workers -> Seq(Conns \cup {Tick})]
    <3>1. <<>> \in Seq(Chunks) /\ <<>> \in Seq(Conns \cup {Tick})
      OBVIOUS
    <3> QED BY <3>1 DEF Init
  <2>2. /\ state \in [Conns -> States] /\ got \in [Conns -> Chunks]
        /\ open \in [Conns -> BOOLEAN]
        /\ next \in Conns
    BY DEF Init, States, Chunks
  <2>3. /\ home \in [Conns -> Workers] /\ taskId \in [Conns -> Nat]
        /\ sent \in [Conns -> 0..MaxChunks] /\ running \in [Workers -> Conns \cup {None}]
        /\ highest \in [Workers -> Nat] /\ due \in [Workers -> Nat]
    BY <1>1 DEF Init
  <2> QED BY <1>5, <2>1, <2>2, <2>3 DEF TypeOK
<1> QED BY <1>4, <1>7, <1>8, <1>9 DEF ServerInv

LEMMA ServerStep == ServerInv /\ [Next]_vars => ServerInv'
<1> SUFFICES ASSUME ServerInv, [Next]_vars PROVE ServerInv'
  OBVIOUS
<1>1. CASE UNCHANGED vars
  <2>1. /\ UNCHANGED <<state, home, open, taskId, inbox, got, sent>>
        /\ UNCHANGED <<next, queue, running, tasks, highest, due>>
    BY <1>1 DEF vars, conns, timers
  <2>2. \A w : Pending(w)' = Pending(w)
    BY <2>1 DEF Pending
  <2>3. QueuesListPending'
    BY <2>1, <2>2 DEF ServerInv, QueuesListPending, Lists
  <2>4. TypeOK' /\ HandlersRun' /\ AcceptorWaits' /\ ReadyHasData' /\ DeadlinesOwned'
    BY <2>1 DEF ServerInv, TypeOK, HandlersRun, AcceptorWaits, ReadyHasData,
       DeadlinesOwned
  <2> QED BY <2>3, <2>4 DEF ServerInv
<1>2. CASE Accept
  BY <1>2, AcceptStep
<1>3. CASE \E c \in Conns : ClientSends(c)
  BY <1>3, ClientSendsStep
<1>4. ASSUME NEW w \in Workers, Elapse(w) \/ Poll(w) \/ Work(w) \/ EndHandler(w)
      PROVE  ServerInv'
  BY <1>4, ElapseStep, PollStep, RunConnectionStep, RunTickStep, EndHandlerStep DEF Work
<1> QED BY <1>1, <1>2, <1>3, <1>4 DEF Next

LEMMA ServerInvariant == Spec => []ServerInv
<1> QED BY ServerInit, ServerStep, PTL DEF Spec

----------------------------------------------------------------------------
(* What the server keeps to.                                                 *)

\* The variables of the acceptor, the workers, their timers and connections
\* keep their types: among others, every id of tasks_ is one that
\* highest_id_ has counted, and every task is of a connection.
THEOREM TypeCorrect == Spec => []TypeOK
<1>1. ServerInv => TypeOK
  BY DEF ServerInv
<1> QED BY <1>1, ServerInvariant, PTL

LEMMA CallbacksOf ==
    ASSUME ServerInv, NEW c \in Conns, NEW w \in Workers
    PROVE  Cardinality({i \in DOMAIN queue[w] : queue[w][i] = c})
             = IF home[c] = w /\ state[c] \in Queued THEN 1 ELSE 0
<1> DEFINE places == {i \in DOMAIN queue[w] : queue[w][i] = c}
<1>1. Lists(queue[w], Pending(w))
  BY DEF ServerInv, QueuesListPending
<1>2. CASE c \in Pending(w)
  <2>1. PICK i \in DOMAIN queue[w] : queue[w][i] = c
    BY <1>1, <1>2 DEF Lists
  <2>2. places = {i}
    BY <1>1, <2>1 DEF Lists
  <2>3. Cardinality(places) = 1
    BY <2>2, FS_Singleton
  <2> QED BY <1>2, <2>3 DEF Pending
<1>3. CASE c \notin Pending(w)
  <2>1. places = {}
    BY <1>1, <1>3, ListsDomain, ServerAssumption
  <2>2. Cardinality(places) = 0
    BY <2>1, FS_EmptySet
  <2> QED BY <1>3, <2>2 DEF Pending
<1> QED BY <1>2, <1>3

\* Whatever is accepted, read, closed, timed out or handled, in any order: a
\* connection has one callback in the queue of its worker, or one pending read,
\* or a running handler, or the acceptor, and never two of them.
THEOREM OneGoesOn == Spec => []OneContinuation
<1>1. ServerInv => OneContinuation
  <2> SUFFICES ASSUME ServerInv, NEW c \in Conns
               PROVE  /\ \A w \in Workers :
                            Cardinality({i \in DOMAIN queue[w] : queue[w][i] = c})
                              = (IF home[c] = w /\ state[c] \in Queued THEN 1 ELSE 0)
                      /\ (state[c] = "handling") <=> (running[home[c]] = c)
                      /\ (state[c] = "accepting") <=> (next = c)
    BY DEF OneContinuation
  <2>1. \A w \in Workers :
            Cardinality({i \in DOMAIN queue[w] : queue[w][i] = c})
              = (IF home[c] = w /\ state[c] \in Queued THEN 1 ELSE 0)
    BY CallbacksOf
  <2>2. home[c] \in Workers
    BY DEF ServerInv, TypeOK
  <2>3. (state[c] = "handling") <=> (running[home[c]] = c)
    BY <2>2 DEF ServerInv, HandlersRun
  <2>4. (state[c] = "accepting") <=> (next = c)
    BY DEF ServerInv, AcceptorWaits
  <2> QED BY <2>1, <2>3, <2>4
<1> QED BY <1>1, ServerInvariant, PTL

\* A deadline closes the socket of the connection that set it last, and of a
\* connection that is being read, although task_timer gives ids out again when
\* it has no task left.
THEOREM DeadlinesAreOwned == Spec => []DeadlineHasOwner
<1>1. ServerInv => DeadlineHasOwner
  BY DEF ServerInv, DeadlinesOwned, DeadlineHasOwner, Read
<1> QED BY <1>1, ServerInvariant, PTL

----------------------------------------------------------------------------
(* No request is forgotten: what a fair scheduling needs to get at it.       *)

\* A connection that is not read holds nothing unread, and none can be sent to it.
Silent == {"unmade", "accepting", "gone"}

SilentIsEmpty ==
    \A c \in Conns : state[c] \in Silent => inbox[c] = <<>> /\ ~open[c]

\* A request that is there is named in the queue of its worker, or on a socket
\* that the worker's reactor will find to be readable, or the worker runs a
\* handler, after which it is read on.  So nothing but that handler can keep it.
RequestIsSeen ==
    \A c \in Conns : state[c] # "unmade" /\ HasRequest(c) =>
        \/ \E i \in DOMAIN queue[home[c]] : queue[home[c]][i] = c
        \/ c \in HasData(home[c])
        \/ running[home[c]] # None

\* A connection that is destroyed is not read, timed out or handled again.
GoneForGood ==
    [][\A c \in Conns : state[c] = "gone" => state'[c] = "gone" /\ ~open'[c]]_vars

\* The connections that a step touches were made, and one it destroys is left
\* with a closed socket and nothing in it.
TouchesMade ==
    \A c \in Conns :
        \/ state[c] \in Silent /\ state'[c] = state[c] /\ inbox'[c] = inbox[c]
              /\ (open'[c] => open[c])
        \/ state[c] = "unmade" /\ state'[c] = "accepting" /\ inbox'[c] = inbox[c]
              /\ (open'[c] => open[c])
        \/ state[c] # "gone" /\ state'[c] \notin Silent
        \/ state[c] # "gone" /\ state'[c] = "gone" /\ inbox'[c] = <<>> /\ ~open'[c]

LEMMA TouchedOnes ==
    ASSUME ServerInv, SilentIsEmpty, [Next]_vars
    PROVE  TouchesMade
<1>0. TypeOK /\ QueuesListPending /\ HandlersRun /\ AcceptorWaits /\ DeadlinesOwned
  BY DEF ServerInv
<1>1. CASE UNCHANGED vars
  BY <1>0, <1>1 DEF vars, conns, TouchesMade, Silent
<1>2. CASE Accept
  <2>1. PICK c \in Conns : c = next /\ state[c] = "accepting"
    BY <1>0, <1>2 DEF Accept, TypeOK, AcceptorWaits
  <2>2. open' = [open EXCEPT ![c] = TRUE] /\ inbox' = inbox
    BY <1>2, <2>1 DEF Accept
  <2>3. \A d \in Conns :
            \/ d = c /\ state'[d] = "start"
            \/ d # c /\ state'[d] = state[d]
            \/ d # c /\ state[d] = "unmade" /\ state'[d] = "accepting"
    <3>1. CASE \E e \in Conns :
                  /\ state[e] = "unmade"
                  /\ state' = [state EXCEPT ![next] = "start", ![e] = "accepting"]
      <4>1. PICK e \in Conns :
                  /\ state[e] = "unmade"
                  /\ state' = [state EXCEPT ![c] = "start", ![e] = "accepting"]
        BY <2>1, <3>1
      <4>2. e # c
        BY <2>1, <4>1
      <4> QED BY <1>0, <4>1, <4>2 DEF TypeOK
    <3>2. CASE state' = [state EXCEPT ![next] = "start"]
      BY <1>0, <2>1, <3>2 DEF TypeOK
    <3> QED BY <1>2, <3>1, <3>2 DEF Accept
  <2>4. \A d \in Conns : d # c => open'[d] = open[d]
    BY <1>0, <2>2 DEF TypeOK
  <2> QED BY <2>1, <2>2, <2>3, <2>4 DEF TouchesMade, Silent
<1>3. ASSUME NEW c \in Conns, ClientSends(c) PROVE TouchesMade
  <2>1. /\ state' = state /\ open' = open /\ open[c]
        /\ \A d \in Conns : d # c => inbox'[d] = inbox[d]
    BY <1>0, <1>3 DEF ClientSends, TypeOK
  <2>2. state[c] \notin Silent
    BY <2>1 DEF SilentIsEmpty
  <2> QED BY <2>1, <2>2 DEF TouchesMade, Silent
<1>4. ASSUME NEW w \in Workers, Elapse(w) PROVE TouchesMade
  BY <1>4 DEF Elapse, conns, TouchesMade, Silent
<1>5. ASSUME NEW w \in Workers, Poll(w) PROVE TouchesMade
  BY <1>5 DEF Poll, HasData, TouchesMade, Silent
<1>6. ASSUME NEW w \in Workers, RunTick(w) PROVE TouchesMade
  <2> DEFINE fired == {i \in DOMAIN tasks[w] : i <= due[w]}
             cut == {tasks[w][i] : i \in fired}
             aborted == {c \in cut : state[c] \in {"reading", "ready"}}
  <2>1. /\ inbox' = inbox
        /\ open' = [c \in Conns |-> open[c] /\ c \notin cut]
        /\ state' = [c \in Conns |-> IF c \in aborted THEN "abort" ELSE state[c]]
    BY <1>6 DEF RunTick
  <2>2. \A c \in cut : state[c] \notin Silent
    BY <1>0 DEF DeadlinesOwned, Read, Silent
  <2>3. \A c \in aborted : state[c] \notin Silent
    BY DEF Silent
  <2> HIDE DEF cut, aborted
  <2>4. ASSUME NEW c \in Conns, state[c] \in Silent
        PROVE  state'[c] = state[c] /\ inbox'[c] = inbox[c] /\ (open'[c] => open[c])
    <3>1. c \notin cut /\ c \notin aborted
      BY <2>2, <2>3, <2>4
    <3>2. open'[c] => open[c]
      BY <2>1
    <3> QED BY <2>1, <3>1, <3>2
  <2>5. ASSUME NEW c \in Conns, state[c] \notin Silent
        PROVE  state[c] # "gone" /\ state'[c] \notin Silent
    BY <2>1, <2>5 DEF Silent
  <2> QED BY <2>4, <2>5 DEF TouchesMade
<1>7. ASSUME NEW c \in Conns, state[c] \in Queued \cup {"handling"},
             NEW w \in Workers, NEW left, NEW rest, NEW chunk,
             \/ ReadOn(w, c, left, rest)
             \/ Destroy(w, c, rest)
             \/ Handle(w, c, chunk, left, rest)
      PROVE  TouchesMade
  <2>1. state[c] \notin Silent
    BY <1>7 DEF Queued, Silent
  <2>2. \A d \in Conns : d # c => /\ state'[d] = state[d] /\ inbox'[d] = inbox[d]
                                  /\ open'[d] = open[d]
    BY <1>0, <1>7 DEF ReadOn, DoRead, Destroy, Handle, TypeOK
  <2>3. \/ state'[c] \in {"reading", "got", "handling"}
        \/ state'[c] = "gone" /\ inbox'[c] = <<>> /\ ~open'[c]
    BY <1>0, <1>7 DEF ReadOn, DoRead, Destroy, Handle, TypeOK
  <2> QED BY <2>1, <2>2, <2>3 DEF TouchesMade, Silent
<1>8. ASSUME NEW w \in Workers, RunConnection(w) PROVE TouchesMade
  <2> DEFINE c == Head(queue[w])
             rest == Tail(queue[w])
  <2>1. c \in Conns /\ state[c] \in Queued
    <3>1. Lists(queue[w], Pending(w)) /\ queue[w] # <<>> /\ c # Tick
      BY <1>0, <1>8 DEF RunConnection, QueuesListPending
    <3>2. c \in Pending(w) \cup {Tick}
      BY <3>1, ListsTail
    <3> QED BY <3>1, <3>2 DEF Pending
  <2>2. \E chunk, left : \/ ReadOn(w, c, left, rest)
                         \/ Destroy(w, c, rest)
                         \/ Handle(w, c, chunk, left, rest)
    BY <1>8 DEF RunConnection, Callback
  <2> HIDE DEF c, rest
  <2> QED BY <1>7, <2>1, <2>2
<1>9. ASSUME NEW w \in Workers, EndHandler(w) PROVE TouchesMade
  <2>1. running[w] \in Conns /\ state[running[w]] = "handling"
    BY <1>0, <1>9 DEF EndHandler, TypeOK, HandlersRun
  <2>2. \/ Destroy(w, running[w], queue[w])
        \/ ReadOn(w, running[w], inbox[running[w]], queue[w])
    BY <1>9 DEF EndHandler
  <2> QED BY <1>7, <2>1, <2>2
<1> QED BY <1>1, <1>2, <1>3, <1>4, <1>5, <1>6, <1>8, <1>9 DEF Next, Work

LEMMA SilentStep == ServerInv /\ SilentIsEmpty /\ [Next]_vars => SilentIsEmpty'
<1> SUFFICES ASSUME ServerInv, SilentIsEmpty, [Next]_vars PROVE SilentIsEmpty'
  OBVIOUS
<1>1. TouchesMade
  BY TouchedOnes
<1> QED BY <1>1 DEF TouchesMade, SilentIsEmpty, Silent

LEMMA SilentInvariant == Spec => []SilentIsEmpty
<1>1. Init => SilentIsEmpty
  BY DEF Init, SilentIsEmpty
<1> QED BY <1>1, SilentStep, ServerInvariant, PTL DEF Spec

\* A request that has arrived is never out of sight: at any time its connection
\* has a callback in the queue, or is one the reactor queues, or its worker is
\* in a handler; deadlines, aborts and closed connections lose none.
THEOREM RequestsAreSeen == Spec => []RequestIsSeen
<1>1. ServerInv /\ SilentIsEmpty => RequestIsSeen
  <2> SUFFICES ASSUME ServerInv, SilentIsEmpty,
                      NEW c \in Conns, state[c] # "unmade", HasRequest(c)
               PROVE  \/ \E i \in DOMAIN queue[home[c]] : queue[home[c]][i] = c
                      \/ c \in HasData(home[c])
                      \/ running[home[c]] # None
    BY DEF RequestIsSeen
  <2>1. state[c] \in States /\ home[c] \in Workers /\ inbox[c] \in Seq(Chunks)
    BY DEF ServerInv, TypeOK
  <2>2. state[c] = "got" \/ inbox[c] # <<>>
    BY <2>1 DEF HasRequest
  <2>3. CASE state[c] \in Queued
    <3>1. c \in Pending(home[c]) /\ Lists(queue[home[c]], Pending(home[c]))
      BY <2>1, <2>3 DEF Pending, ServerInv, QueuesListPending
    <3> QED BY <3>1 DEF Lists
  <2>4. CASE state[c] = "reading"
    BY <2>2, <2>4 DEF HasData
  <2>5. CASE state[c] = "handling"
    <3>1. running[home[c]] = c
      BY <2>1, <2>5 DEF ServerInv, HandlersRun
    <3> QED BY <3>1, ServerAssumption
  <2>6. CASE state[c] \in Silent
    BY <2>2, <2>6 DEF SilentIsEmpty, Silent
  <2> QED BY <2>1, <2>3, <2>4, <2>5, <2>6 DEF States, Queued, Silent
<1> QED BY <1>1, ServerInvariant, SilentInvariant, PTL

\* No callback, deadline or handler brings a destroyed connection back.
THEOREM DestroyedForGood == Spec => GoneForGood
<1>1. ServerInv /\ SilentIsEmpty /\ [Next]_vars =>
        \A c \in Conns : state[c] = "gone" => state'[c] = "gone" /\ ~open'[c]
  <2> SUFFICES ASSUME ServerInv, SilentIsEmpty, [Next]_vars,
                      NEW c \in Conns, state[c] = "gone"
               PROVE  state'[c] = "gone" /\ ~open'[c]
    OBVIOUS
  <2>1. TouchesMade
    BY TouchedOnes
  <2> QED BY <2>1 DEF TouchesMade, SilentIsEmpty, Silent
<1> QED BY <1>1, ServerInvariant, SilentInvariant, PTL DEF Spec, GoneForGood

----------------------------------------------------------------------------
(* The server implements the pool of workers that the handlers rely on.      *)

LEMMA PoolInit == Init => Pool!Init
<1>1. 0 \in Workers
  BY ServerAssumption DEF Workers
<1> QED BY <1>1 DEF Init, Pool!Init

LEMMA PoolStep == ServerInv /\ [Next]_vars => [Pool!Next]_Pool!vars
<1> SUFFICES ASSUME ServerInv, [Next]_vars PROVE [Pool!Next]_Pool!vars
  OBVIOUS
<1>0. TypeOK /\ HandlersRun
  BY DEF ServerInv
<1>1. UNCHANGED <<home, running>> => UNCHANGED Pool!vars
  BY DEF Pool!vars
<1>2. CASE UNCHANGED vars
  BY <1>1, <1>2 DEF vars, conns
<1>3. CASE Accept
  <2>1. running' = running
    BY <1>3 DEF Accept
  <2>2. CASE \E d \in Conns : state[d] = "unmade" /\ home' = [home EXCEPT ![d] = Picked]
    <3>1. PICK d \in Conns : state[d] = "unmade" /\ home' = [home EXCEPT ![d] = Picked]
      BY <2>2
    <3>2. \A w \in Workers : running[w] # d
      BY <1>0, <3>1 DEF HandlersRun
    <3>3. Pool!Place(d)
      BY <2>1, <3>1, <3>2, PickedIsWorker DEF Pool!Place
    <3> QED BY <3>3 DEF Pool!Next
  <2>3. CASE UNCHANGED home
    BY <1>1, <2>1, <2>3
  <2> QED BY <1>3, <2>2, <2>3 DEF Accept
<1>4. CASE \E c \in Conns : ClientSends(c)
  BY <1>1, <1>4 DEF ClientSends
<1>5. ASSUME NEW w \in Workers, Elapse(w) \/ Poll(w) \/ RunTick(w)
      PROVE  UNCHANGED Pool!vars
  BY <1>1, <1>5 DEF Elapse, Poll, RunTick, conns
<1>6. ASSUME NEW w \in Workers, RunConnection(w) PROVE [Pool!Next]_Pool!vars
  <2> DEFINE c == Head(queue[w])
  <2>1. c \in Conns /\ home[c] = w
    <3>1. Lists(queue[w], Pending(w)) /\ queue[w] # <<>> /\ c # Tick
      BY <1>6 DEF RunConnection, ServerInv, QueuesListPending
    <3>2. c \in Pending(w) \cup {Tick}
      BY <3>1, ListsTail
    <3> QED BY <3>1, <3>2 DEF Pending
  <2>2. running[w] = None /\ home' = home
    BY <1>6 DEF RunConnection, Idle
  <2>3. UNCHANGED running \/ running' = [running EXCEPT ![w] = c]
    BY <1>6 DEF RunConnection, Callback
  <2> HIDE DEF c
  <2>4. CASE running' = [running EXCEPT ![w] = c]
    <3>1. Pool!Begin(c)
      BY <2>1, <2>2, <2>4 DEF Pool!Begin
    <3> QED BY <2>1, <3>1 DEF Pool!Next
  <2> QED BY <1>1, <2>2, <2>3, <2>4
<1>7. ASSUME NEW w \in Workers, EndHandler(w) PROVE [Pool!Next]_Pool!vars
  <2>1. running[w] # None /\ home' = home /\ running' = [running EXCEPT ![w] = None]
    BY <1>7 DEF EndHandler
  <2>2. running[w] \in Conns /\ home[running[w]] = w
    BY <1>0, <2>1 DEF TypeOK, HandlersRun
  <2>3. Pool!End(running[w])
    BY <2>1, <2>2 DEF Pool!End
  <2> QED BY <2>2, <2>3 DEF Pool!Next
<1> QED BY <1>2, <1>3, <1>4, <1>5, <1>6, <1>7 DEF Next, Work

\* The acceptor, the reactor, the timers and the callbacks together give the
\* handlers of main.cpp what WorkerPool promises them: a connection keeps its
\* worker, and a worker runs one handler at a time, from its start to its end.
THEOREM ServerIsPool == Spec => ImplementsWorkerPool
<1> QED BY PoolInit, PoolStep, ServerInvariant, PTL DEF Spec, ImplementsWorkerPool,
           Pool!Spec
=============================================================================
