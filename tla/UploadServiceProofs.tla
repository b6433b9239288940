------------------------- MODULE UploadServiceProofs -------------------------
(* Proofs about UploadService, for any number of calls and threads, any      *)
(* requests and any bound on the clock.                                      *)
EXTENDS UploadService, TLAPS, NaturalsInduction, WellFoundedInduction

----------------------------------------------------------------------------
(* Type correctness, with where in the handler the id is made.               *)

IdMade ==
    \A c \in Calls :
        /\ pc[c] \in {"unsent", "queued", "parse", "stamp", "count"} => id[c] = NoId
        /\ pc[c] \in {"save", "spawn", "wait", "score"} => id[c] # NoId

\* What another route's handler does to this one's threads.
Elsewhere == \E w \in Workers : EvaluateBegins(w) \/ EvaluateEnds(w)

\* Such a step changes nothing but held.
LEMMA ElsewhereIsQuiet ==
    Elsewhere => UNCHANGED <<pc, local, child, answer, disk, clock, born, counter>>
BY DEF Elsewhere, EvaluateBegins, EvaluateEnds

\* Every step keeps every variable in its type: a file is only saved under an
\* id that was made.
LEMMA TypeStep == TypeOK /\ IdMade /\ [Next]_vars => TypeOK'
<1> SUFFICES ASSUME TypeOK, IdMade, [Next]_vars PROVE TypeOK'
  OBVIOUS
<1> USE DEF Goto, local, disk, process
<1>1. ASSUME NEW c \in Calls, Send(c) PROVE TypeOK'
  BY <1>1 DEF Send, TypeOK, States
<1>2. ASSUME NEW c \in Calls, Take(c) \/ Drop(c) PROVE TypeOK'
  BY <1>2 DEF Take, Drop, TypeOK, States, Running
<1>3. ASSUME NEW c \in Calls,
             RejectMalformed(c) \/ RejectNoParts(c) \/ RejectEmptyParts(c)
             \/ RejectUnreadablePdf(c) \/ RankingThrows(c)
      PROVE TypeOK'
  <2>1. CASE RejectMalformed(c)
    BY <2>1 DEF Reply, TypeOK, Answers, RejectMalformed, States, Running
  <2>2. CASE RejectNoParts(c)
    BY <2>2 DEF Reply, TypeOK, Answers, RejectNoParts, States, Running
  <2>3. CASE RejectEmptyParts(c)
    BY <2>3 DEF Reply, TypeOK, Answers, RejectEmptyParts, States, Running
  <2>4. CASE RejectUnreadablePdf(c)
    BY <2>4 DEF Reply, TypeOK, Answers, RejectUnreadablePdf, States, Running
  <2>5. CASE RankingThrows(c)
    BY <2>5 DEF Reply, TypeOK, Answers, RankingThrows, States, Running
  <2> QED BY <1>3, <2>1, <2>2, <2>3, <2>4, <2>5
<1>4. ASSUME NEW c \in Calls, MakeDirectories(c) PROVE TypeOK'
  <2>1. CASE Reply(c, "parse", 500, TRUE)
    BY <2>1 DEF Reply, TypeOK, Answers, States, Running
  <2>2. CASE Goto(c, "parse", "stamp")
             /\ UNCHANGED <<local, child, answer, disk, process>>
    BY <2>2 DEF TypeOK, States, Running
  <2> QED BY <1>4, <2>1, <2>2 DEF MakeDirectories
<1>5. ASSUME NEW c \in Calls, ReadClock(c) PROVE TypeOK'
  BY <1>5 DEF ReadClock, TypeOK, States, Running
<1>6. ASSUME NEW c \in Calls, FetchAdd(c) PROVE TypeOK'
  <2>1. NewId(c) \in Ids
    BY DEF NewId, Ids, TypeOK
  <2> QED BY <1>6, <2>1 DEF FetchAdd, TypeOK, States, Running
<1>7. ASSUME NEW c \in Calls, SavePart(c) PROVE TypeOK'
  <2>1. id[c] \in Ids
    BY <1>7 DEF SavePart, IdMade, TypeOK
  <2>2. DOMAIN request[c].parts \subseteq Nat
    BY RequestsAssumption DEF TypeOK
  <2>3. uploads' \subseteq Files
    BY <1>7, <2>1, <2>2 DEF SavePart, TypeOK, Overwrite, Files
  <2> QED BY <1>7, <2>3 DEF SavePart, TypeOK, States, Running
<1>8. ASSUME NEW c \in Calls, Spawn(c) PROVE TypeOK'
  BY <1>8 DEF Spawn, TypeOK, States, Running
<1>9. ASSUME NEW c \in Calls, Extracted(c) PROVE TypeOK'
  BY <1>9 DEF Extracted, TypeOK, States, Running
<1>10. ASSUME NEW c \in Calls, Publish(c) PROVE TypeOK'
  BY <1>10 DEF Publish, TypeOK, States, Running, Answers
<1>11. ASSUME NEW c \in Calls, Convert(c) PROVE TypeOK'
  BY <1>11 DEF Convert, ConvertWhole, ConvertFails, TypeOK, Overwrite, Files
<1>12. ASSUME Tick \/ Restart PROVE TypeOK'
  BY <1>12 DEF Tick, Restart, TypeOK, States, Running
<1>14. ASSUME Elsewhere PROVE TypeOK'
  BY <1>14 DEF Elsewhere, EvaluateBegins, EvaluateEnds, TypeOK
<1>13. ASSUME UNCHANGED vars PROVE TypeOK'
  BY <1>13 DEF vars, TypeOK
<1> QED
  BY <1>1, <1>2, <1>3, <1>4, <1>5, <1>6, <1>7, <1>8, <1>9, <1>10, <1>11, <1>12,
     <1>13, <1>14 DEF Next, Handle, Elsewhere

\* The id is made in one step, between reading the clock and saving the file.
LEMMA IdMadeStep == TypeOK /\ IdMade /\ [Next]_vars => IdMade'
<1> SUFFICES ASSUME TypeOK, IdMade, [Next]_vars PROVE IdMade'
  OBVIOUS
<1> USE DEF Goto, Reply, local, disk, process
<1>1. ASSUME NEW c \in Calls, Send(c) \/ Take(c) \/ Drop(c) \/ ReadClock(c) \/ SavePart(c)
                               \/ Spawn(c) \/ Extracted(c) \/ Publish(c)
      PROVE IdMade'
  BY <1>1 DEF Send, Take, Drop, ReadClock, SavePart, Spawn, Extracted, Publish,
        TypeOK, IdMade
<1>2. ASSUME NEW c \in Calls,
             RejectMalformed(c) \/ RejectNoParts(c) \/ RejectEmptyParts(c)
             \/ RejectUnreadablePdf(c) \/ RankingThrows(c) \/ MakeDirectories(c)
      PROVE IdMade'
  BY <1>2 DEF RejectMalformed, RejectNoParts, RejectEmptyParts,
        RejectUnreadablePdf, RankingThrows, MakeDirectories, TypeOK, IdMade
<1>3. ASSUME NEW c \in Calls, FetchAdd(c) PROVE IdMade'
  <2>1. NewId(c) # NoId
    BY NoIdAssumption DEF NewId, Ids, TypeOK
  <2> QED BY <1>3, <2>1 DEF FetchAdd, TypeOK, IdMade
<1>4. ASSUME NEW c \in Calls, Convert(c) PROVE IdMade'
  BY <1>4 DEF Convert, ConvertWhole, ConvertFails, IdMade
<1>5. ASSUME Tick \/ Elsewhere \/ UNCHANGED vars PROVE IdMade'
  BY <1>5, ElsewhereIsQuiet DEF Tick, vars, IdMade
<1>6. ASSUME Restart PROVE IdMade'
  BY <1>6 DEF Restart, IdMade, TypeOK, Running
<1> QED BY <1>1, <1>2, <1>3, <1>4, <1>5, <1>6 DEF Next, Handle, Elsewhere

\* TypeOK holds in every reachable state.
THEOREM TypeCorrect == Spec => [](TypeOK /\ IdMade)
<1>1. Init => TypeOK /\ IdMade
  BY DEF Init, TypeOK, States, Answers, NoAnswer, IdMade
<1> QED BY <1>1, TypeStep, IdMadeStep, PTL DEF Spec

----------------------------------------------------------------------------
(* Unique ids.  Within one process the counter tells ids apart; an id of an  *)
(* earlier process was stamped before this one was born, so its instant does. *)

IdInv ==
    /\ born <= clock
    /\ \A c \in Calls : pc[c] = "count" => born <= now[c] /\ now[c] <= clock
    /\ \A c \in Calls : id[c] # NoId =>
            /\ id[c].now <= clock
            /\ born <= id[c].now => id[c].seq < counter
    /\ IdsUnique

\* IdInv is kept by every step: a new id carries the counter's value, which no
\* id of this process has, and an instant that no id of an earlier one has.
LEMMA IdInvStep == TypeOK /\ IdMade /\ IdInv /\ [Next]_vars => IdInv'
<1> SUFFICES ASSUME TypeOK, IdMade, IdInv, [Next]_vars PROVE IdInv'
  OBVIOUS
<1> USE DEF Goto, Reply, local, disk, process
<1>1. ASSUME NEW c \in Calls,
             Send(c) \/ Take(c) \/ Drop(c) \/ SavePart(c) \/ Spawn(c) \/ Extracted(c) \/ Publish(c)
      PROVE IdInv'
  BY <1>1 DEF Send, Take, Drop, SavePart, Spawn, Extracted, Publish,
        TypeOK, IdInv, IdsUnique
<1>2. ASSUME NEW c \in Calls,
             RejectMalformed(c) \/ RejectNoParts(c) \/ RejectEmptyParts(c)
             \/ RejectUnreadablePdf(c) \/ RankingThrows(c) \/ MakeDirectories(c)
      PROVE IdInv'
  BY <1>2 DEF RejectMalformed, RejectNoParts, RejectEmptyParts,
        RejectUnreadablePdf, RankingThrows, MakeDirectories, TypeOK, IdInv, IdsUnique
<1>3. ASSUME NEW c \in Calls, ReadClock(c) PROVE IdInv'
  BY <1>3 DEF ReadClock, TypeOK, IdInv, IdsUnique
<1>4. ASSUME NEW c \in Calls, FetchAdd(c) PROVE IdInv'
  <2>1. id' = [id EXCEPT ![c] = NewId(c)] /\ counter' = counter + 1
        /\ pc[c] = "count" /\ UNCHANGED <<now, clock, born>>
    BY <1>4 DEF FetchAdd
  <2>2. NewId(c).now = now[c] /\ NewId(c).seq = counter
    BY DEF NewId
  <2>3. born <= now[c] /\ now[c] <= clock
    BY <2>1 DEF IdInv
  <2>4. ASSUME NEW d \in Calls, id[d] # NoId PROVE id[d] # NewId(c)
    <3>1. CASE born <= id[d].now
      <4>1. id[d].seq < counter /\ id[d] \in Ids
        BY <2>4, <3>1 DEF IdInv, TypeOK
      <4> QED BY <4>1, <2>2 DEF Ids, TypeOK
    <3>2. CASE ~(born <= id[d].now)
      BY <3>2, <2>2, <2>3
    <3> QED BY <3>1, <3>2
  <2>5. ASSUME NEW d \in Calls, id'[d] # NoId
        PROVE  id'[d].now <= clock /\ (born <= id'[d].now => id'[d].seq < counter + 1)
    <3>1. CASE d = c
      BY <3>1, <2>1, <2>2, <2>3 DEF TypeOK
    <3>2. CASE d # c
      <4>1. id'[d] = id[d] /\ id[d] \in Ids
        BY <3>2, <2>1, <2>5 DEF TypeOK
      <4> QED BY <4>1, <2>5 DEF IdInv, TypeOK, Ids
    <3> QED BY <3>1, <3>2
  <2>6. \A d \in Calls : pc'[d] = "count" => pc[d] = "count"
    BY <1>4 DEF FetchAdd, TypeOK
  <2>7. IdsUnique'
    BY <2>1, <2>4 DEF IdInv, IdsUnique, TypeOK
  <2> QED BY <2>1, <2>5, <2>6, <2>7 DEF IdInv
<1>5. ASSUME NEW c \in Calls, Convert(c) PROVE IdInv'
  BY <1>5 DEF Convert, ConvertWhole, ConvertFails, IdInv, IdsUnique
<1>6. ASSUME Tick PROVE IdInv'
  <2>1. \A c \in Calls : id[c] # NoId => id[c].now \in Nat
    BY DEF TypeOK, Ids
  <2> QED BY <1>6, <2>1 DEF Tick, TypeOK, IdInv, IdsUnique
<1>7. ASSUME Restart PROVE IdInv'
  <2>1. \A c \in Calls : id[c] # NoId => id[c].now \in Nat
    BY DEF TypeOK, Ids
  <2>2. \A c \in Calls : pc'[c] # "count"
    BY <1>7 DEF Restart, Running, TypeOK
  <2> QED BY <1>7, <2>1, <2>2 DEF Restart, TypeOK, IdInv, IdsUnique
<1>8. ASSUME Elsewhere \/ UNCHANGED vars PROVE IdInv'
  BY <1>8, ElsewhereIsQuiet DEF vars, IdInv, IdsUnique
<1> QED BY <1>1, <1>2, <1>3, <1>4, <1>5, <1>6, <1>7, <1>8 DEF Next, Handle, Elsewhere

\* No two calls ever have one id, for any number of threads and restarts.
THEOREM UniqueIds == Spec => []IdsUnique
<1>1. Init => TypeOK /\ IdMade /\ IdInv
  BY DEF Init, TypeOK, States, Answers, NoAnswer, IdMade, IdInv, IdsUnique
<1>2. IdInv => IdsUnique
  BY DEF IdInv
<1> QED BY <1>1, <1>2, TypeStep, IdMadeStep, IdInvStep, PTL DEF Spec

----------------------------------------------------------------------------
(* Who a file belongs to.                                                    *)

\* A file bears the id of the call it was made for and its first body.
Owned ==
    \A f \in uploads \cup extracted :
        f.id = id[f.of] /\ IsFirstBody(f.of, f.part)

\* A text comes from the one pdftotext of its call, which is no longer running;
\* after a success there is one.
Converted ==
    /\ \A f \in extracted : child[f.of] \in {"ok", "failed"}
    /\ \A c \in Calls : child[c] = "ok" => \E f \in extracted : f.id = id[c]
    /\ \A c \in Calls :
          /\ pc[c] \in {"unsent", "queued", "parse", "stamp", "count", "save", "spawn"}
                => child[c] = "none"
          /\ pc[c] = "score" => child[c] = "ok"

\* Answers are given once; a 200 answer has the caller's id and text.
AnsweredWell ==
    \A c \in Calls :
        /\ pc[c] # "answered" => answer[c].status = 0
        /\ answer[c].status = 200 => answer[c].id = id[c] /\ child[c] = "ok"
        /\ \A f \in answer[c].basis : f.of = c /\ IsFirstBody(c, f.part)

FileInv == Owned /\ Converted /\ AnsweredWell
Inv == TypeOK /\ IdMade /\ IdInv /\ FileInv

\* Two files with one id are of one call.
LEMMA OneOwner ==
    ASSUME Inv, NEW f \in uploads \cup extracted, NEW c \in Calls, f.id = id[c]
    PROVE  f.of = c
<1>1. f.of \in Calls /\ f.id \in Ids
  BY DEF Inv, TypeOK, Files
<1>2. id[f.of] = id[c] /\ id[f.of] # NoId
  BY <1>1, NoIdAssumption DEF Inv, FileInv, Owned
<1> QED BY <1>1, <1>2 DEF Inv, IdInv, IdsUnique

\* No text has the id of a call whose pdftotext is running.
LEMMA NoTextYet ==
    ASSUME Inv, NEW c \in Calls, child[c] = "running"
    PROVE  \A g \in extracted : g.id # id[c]
BY OneOwner DEF Inv, FileInv, Converted

\* Steps that touch neither ids nor files nor answers nor processes.
LEMMA QuietStep ==
    ASSUME Inv, UNCHANGED <<request, id, child, answer, disk>>,
           \A c \in Calls :
              /\ pc'[c] \in {"unsent", "queued", "parse", "stamp", "count", "save", "spawn"}
                    => pc[c] \in {"unsent", "queued", "parse", "stamp", "count", "save", "spawn"}
              /\ pc'[c] = "score" => pc[c] = "score" \/ child[c] = "ok"
              /\ pc[c] = "answered" => pc'[c] = "answered"
    PROVE  FileInv'
BY DEF Inv, FileInv, Owned, Converted, AnsweredWell, IsFirstBody, disk

\* What all refusals of a call have in common.
Refusing(c) ==
    /\ pc[c] # "answered"
    /\ pc' = [pc EXCEPT ![c] = "answered"]
    /\ answer'[c].status # 200 /\ answer'[c].basis = {}
    /\ \A d \in Calls : d # c => answer'[d] = answer[d]
    /\ UNCHANGED <<request, id, child, disk>>

\* Refusing a call disturbs no file.
LEMMA RefusalStep ==
    ASSUME Inv, NEW c \in Calls, Refusing(c)
    PROVE  FileInv'
BY DEF Refusing, Inv, TypeOK, FileInv, Owned, Converted, AnsweredWell, IsFirstBody, disk

\* FileInv is kept by every step.
LEMMA FileInvStep == Inv /\ [Next]_vars => FileInv'
<1> SUFFICES ASSUME Inv, [Next]_vars PROVE FileInv'
  OBVIOUS
<1>0. TypeOK
  BY DEF Inv
<1> USE DEF Goto, local, disk, process
<1>1. ASSUME NEW c \in Calls,
             Send(c) \/ Take(c) \/ Drop(c) \/ ReadClock(c) \/ Extracted(c)
      PROVE FileInv'
  <2>1. UNCHANGED <<request, id, child, answer, disk>>
    BY <1>1 DEF Send, Take, Drop, ReadClock, Extracted
  <2>2. \A d \in Calls :
           /\ pc'[d] \in {"unsent", "queued", "parse", "stamp", "count", "save", "spawn"}
                => pc[d] \in {"unsent", "queued", "parse", "stamp", "count", "save", "spawn"}
           /\ pc'[d] = "score" => pc[d] = "score" \/ child[d] = "ok"
           /\ pc[d] = "answered" => pc'[d] = "answered"
    BY <1>0, <1>1 DEF Send, Take, Drop, ReadClock, Extracted, TypeOK
  <2> QED BY <2>1, <2>2, QuietStep
<1>2. ASSUME NEW c \in Calls,
             RejectMalformed(c) \/ RejectNoParts(c) \/ RejectEmptyParts(c)
             \/ RejectUnreadablePdf(c) \/ RankingThrows(c)
      PROVE FileInv'
  <2>1. Refusing(c)
    BY <1>0, <1>2 DEF Refusing, RejectMalformed, RejectNoParts, RejectEmptyParts,
          RejectUnreadablePdf, RankingThrows, Reply, TypeOK
  <2> QED BY <2>1, RefusalStep
<1>3. ASSUME NEW c \in Calls, MakeDirectories(c) PROVE FileInv'
  <2>1. CASE Reply(c, "parse", 500, TRUE)
    <3>1. Refusing(c)
      BY <1>0, <2>1 DEF Refusing, Reply, TypeOK
    <3> QED BY <3>1, RefusalStep
  <2>2. CASE Goto(c, "parse", "stamp")
             /\ UNCHANGED <<local, child, answer, disk, process>>
    BY <1>0, <2>2, QuietStep DEF TypeOK
  <2> QED BY <1>3, <2>1, <2>2 DEF MakeDirectories
<1>4. ASSUME NEW c \in Calls, FetchAdd(c) PROVE FileInv'
  <2>1. /\ id[c] = NoId /\ child[c] = "none" /\ answer[c].status = 0
        /\ pc[c] = "count" /\ pc' = [pc EXCEPT ![c] = "save"]
        /\ UNCHANGED <<request, child, answer, disk>>
        /\ \A d \in Calls : d # c => id'[d] = id[d]
    BY <1>4 DEF FetchAdd, Inv, TypeOK, IdMade, FileInv, Converted, AnsweredWell
  <2>2. \A f \in uploads \cup extracted : f.of # c /\ f.of \in Calls
    BY <2>1, NoIdAssumption DEF Inv, TypeOK, Files, FileInv, Owned
  <2>3. Owned'
    BY <2>1, <2>2 DEF Inv, FileInv, Owned, IsFirstBody
  <2>4. Converted'
    BY <1>0, <2>1 DEF Inv, FileInv, Converted, TypeOK
  <2>5. AnsweredWell'
    BY <1>0, <2>1 DEF Inv, FileInv, AnsweredWell, IsFirstBody, TypeOK
  <2> QED BY <2>3, <2>4, <2>5 DEF FileInv
<1>5. ASSUME NEW c \in Calls, SavePart(c) PROVE FileInv'
  <2>1. Owned'
    BY <1>5 DEF SavePart, Overwrite, Inv, FileInv, Owned, IsFirstBody
  <2>2. Converted' /\ AnsweredWell'
    BY <1>0, <1>5 DEF SavePart, Inv, FileInv, Converted, AnsweredWell, IsFirstBody, TypeOK
  <2> QED BY <2>1, <2>2 DEF FileInv
<1>6. ASSUME NEW c \in Calls, Spawn(c) PROVE FileInv'
  <2>1. child[c] = "none" /\ pc[c] = "spawn"
    BY <1>6 DEF Spawn, Inv, FileInv, Converted
  <2>2. \A f \in extracted : f.of # c
    BY <2>1 DEF Inv, FileInv, Converted
  <2>3. Owned'
    BY <1>6 DEF Spawn, Inv, FileInv, Owned, IsFirstBody
  <2>4. Converted' /\ AnsweredWell'
    BY <1>0, <1>6, <2>1, <2>2 DEF Spawn, Inv, FileInv, Converted, AnsweredWell,
          IsFirstBody, TypeOK, Files
  <2> QED BY <2>3, <2>4 DEF FileInv
<1>7. ASSUME NEW c \in Calls, Publish(c) PROVE FileInv'
  <2>1. \A f \in extracted : f.id = id[c] => f.of = c /\ IsFirstBody(c, f.part)
    BY OneOwner DEF Inv, FileInv, Owned
  <2>2. child[c] = "ok" /\ pc[c] = "score"
    BY <1>7 DEF Publish, Inv, FileInv, Converted
  <2>3. Owned' /\ Converted'
    BY <1>0, <1>7 DEF Publish, Inv, FileInv, Owned, Converted, IsFirstBody, TypeOK
  <2>4. AnsweredWell'
    BY <1>0, <1>7, <2>1, <2>2 DEF Publish, Inv, FileInv, AnsweredWell, IsFirstBody, TypeOK
  <2> QED BY <2>3, <2>4 DEF FileInv
<1>8. ASSUME NEW c \in Calls, Convert(c) PROVE FileInv'
  <2>1. /\ child[c] = "running"
        /\ \E s \in {"ok", "failed"} : child' = [child EXCEPT ![c] = s]
        /\ UNCHANGED <<pc, request, id, answer, uploads>>
    BY <1>8 DEF Convert, ConvertWhole, ConvertFails
  <2>2. extracted \subseteq extracted'
    BY <1>8, NoTextYet DEF Convert, ConvertWhole, ConvertFails, Overwrite
  <2>3. \A g \in extracted' \ extracted :
           g.id = id[c] /\ g.of = c /\ IsFirstBody(c, g.part)
    <3>1. \A f \in uploads : f.id = id[c] => f.of = c /\ IsFirstBody(c, f.part)
      BY OneOwner DEF Inv, FileInv, Owned
    <3> QED BY <1>0, <1>8, <3>1 DEF Convert, ConvertWhole, ConvertFails, Overwrite,
                TypeOK, Files
  <2>4. child'[c] = "ok" => \E f \in extracted' : f.id = id[c]
    BY <1>0, <1>8 DEF Convert, ConvertWhole, ConvertFails, Overwrite, TypeOK
  <2>5. Owned'
    BY <2>1, <2>3 DEF Inv, FileInv, Owned, IsFirstBody
  <2>6. Converted'
    BY <1>0, <2>1, <2>2, <2>3, <2>4 DEF Inv, FileInv, Converted, TypeOK, Files
  <2>7. AnsweredWell'
    BY <1>0, <2>1 DEF Inv, FileInv, AnsweredWell, IsFirstBody, TypeOK
  <2> QED BY <2>5, <2>6, <2>7 DEF FileInv
<1>9. ASSUME Tick \/ Elsewhere \/ UNCHANGED vars PROVE FileInv'
  BY <1>9, ElsewhereIsQuiet, QuietStep DEF Tick, vars
<1>10. ASSUME Restart PROVE FileInv'
  BY <1>0, <1>10, QuietStep DEF Restart, TypeOK, Running
<1> QED
  BY <1>1, <1>2, <1>3, <1>4, <1>5, <1>6, <1>7, <1>8, <1>9, <1>10 DEF Next, Handle, Elsewhere

\* Inv is an invariant.
LEMMA InvCorrect == Spec => []Inv
<1>1. Init => Inv
  BY DEF Init, Inv, TypeOK, States, Answers, NoAnswer, IdMade, IdInv, IdsUnique,
         FileInv, Owned, Converted, AnsweredWell
<1>2. Inv /\ [Next]_vars => Inv'
  <2>1. Inv => TypeOK /\ IdMade /\ IdInv
    BY DEF Inv
  <2>2. TypeOK' /\ IdMade' /\ IdInv' /\ FileInv' => Inv'
    BY DEF Inv
  <2> QED BY <2>1, <2>2, TypeStep, IdMadeStep, IdInvStep, FileInvStep
<1> QED BY <1>1, <1>2, PTL DEF Spec

\* Every 200 answer is computed from the caller's own first body.
THEOREM OwnUploadAnswered == Spec => []AnswerFromOwnUpload
<1>1. Inv => AnswerFromOwnUpload
  <2> SUFFICES ASSUME Inv, NEW c \in Calls, NEW f \in answer[c].basis
               PROVE  f.of = c /\ IsFirstBody(c, f.part)
                      /\ \A j \in DOMAIN request[c].parts :
                            request[c].parts[j] => f.part <= j
    BY DEF AnswerFromOwnUpload, IsFirstBody
  <2>1. f.of = c /\ IsFirstBody(c, f.part)
    BY DEF Inv, FileInv, AnsweredWell
  <2>2. request[c].parts \in Seq(BOOLEAN)
    BY RequestsAssumption DEF Inv, TypeOK
  <2> QED BY <2>1, <2>2 DEF IsFirstBody
<1> QED BY <1>1, InvCorrect, PTL

\* A published id has the text of its caller's resume, for good.
THEOREM PublishedHasText == Spec => []PublishedIdHasText
<1>1. Inv => PublishedIdHasText
  <2> SUFFICES ASSUME Inv, NEW c \in Calls, answer[c].status = 200
               PROVE  \E f \in extracted : f.id = answer[c].id /\ f.of = c
    BY DEF PublishedIdHasText
  <2>1. answer[c].id = id[c] /\ \E f \in extracted : f.id = id[c]
    BY DEF Inv, FileInv, AnsweredWell, Converted
  <2> QED BY <2>1, OneOwner
<1> QED BY <1>1, InvCorrect, PTL

\* No step replaces or removes a text.
THEOREM TextsStay == Spec => TextsAreFinal
<1>1. Inv /\ [Next]_vars => extracted \subseteq extracted'
  <2> SUFFICES ASSUME Inv, [Next]_vars PROVE extracted \subseteq extracted'
    OBVIOUS
  <2>1. ASSUME NEW c \in Calls, Convert(c) PROVE extracted \subseteq extracted'
    BY <2>1, NoTextYet DEF Convert, ConvertWhole, ConvertFails, Overwrite
  <2>2. ASSUME NEW c \in Calls, Send(c) \/ Take(c) \/ Drop(c) \/ Handle(c)
        PROVE  extracted' = extracted
    BY <2>2 DEF Send, Handle, Take, Drop, RejectMalformed, RejectNoParts, MakeDirectories,
          ReadClock, FetchAdd, RejectEmptyParts, SavePart, Spawn, RejectUnreadablePdf,
          Extracted, Publish, RankingThrows, Reply, disk
  <2>3. ASSUME Tick \/ Elsewhere \/ Restart \/ UNCHANGED vars PROVE extracted' = extracted
    BY <2>3, ElsewhereIsQuiet DEF Tick, Restart, vars, disk
  <2> QED BY <2>1, <2>2, <2>3 DEF Next, Elsewhere
<1> QED BY <1>1, InvCorrect, PTL DEF Spec, TextsAreFinal

----------------------------------------------------------------------------
(* Refused calls.                                                            *)

\* A call only has files from SavePart on, where a 400 is out of reach.
FilesAfterSave ==
    \A f \in uploads \cup extracted :
        /\ pc[f.of] \in {"spawn", "wait", "score", "answered", "lost"}
        /\ answer[f.of].status # 400

\* FilesAfterSave is kept by every step: both 400 answers are given before the
\* one step that saves a file.
LEMMA FilesAfterSaveStep == Inv /\ FilesAfterSave /\ [Next]_vars => FilesAfterSave'
<1> SUFFICES ASSUME Inv, FilesAfterSave, [Next]_vars PROVE FilesAfterSave'
  OBVIOUS
<1>0. TypeOK
  BY DEF Inv
<1>00. \A f \in uploads \cup extracted : f.of \in Calls
  BY <1>0 DEF TypeOK, Files
<1> USE DEF Goto, local, disk, process
<1>1. ASSUME NEW c \in Calls,
             Send(c) \/ Take(c) \/ Drop(c) \/ ReadClock(c) \/ FetchAdd(c) \/ Spawn(c) \/ Extracted(c)
      PROVE FilesAfterSave'
  BY <1>0, <1>00, <1>1 DEF Send, Take, Drop, ReadClock, FetchAdd, Spawn, Extracted,
        FilesAfterSave, TypeOK
<1>2. ASSUME NEW c \in Calls,
             RejectMalformed(c) \/ RejectUnreadablePdf(c) \/ RankingThrows(c)
      PROVE FilesAfterSave'
  BY <1>0, <1>00, <1>2 DEF RejectMalformed, RejectUnreadablePdf, RankingThrows, Reply,
        FilesAfterSave, TypeOK
<1>3. ASSUME NEW c \in Calls, RejectNoParts(c) \/ RejectEmptyParts(c)
      PROVE FilesAfterSave'
  <2>1. Refusing(c)
    BY <1>0, <1>3 DEF Refusing, RejectNoParts, RejectEmptyParts, Reply, TypeOK
  <2>2. \A f \in uploads \cup extracted : f.of # c
    BY <1>3 DEF RejectNoParts, RejectEmptyParts, Reply, FilesAfterSave
  <2> QED BY <1>0, <1>00, <2>1, <2>2 DEF Refusing, FilesAfterSave, TypeOK
<1>4. ASSUME NEW c \in Calls, MakeDirectories(c) PROVE FilesAfterSave'
  <2>1. \A f \in uploads \cup extracted : f.of # c
    BY <1>4 DEF MakeDirectories, Reply, FilesAfterSave
  <2>2. CASE Reply(c, "parse", 500, TRUE)
    BY <1>0, <1>00, <2>1, <2>2 DEF Reply, FilesAfterSave, TypeOK
  <2>3. CASE Goto(c, "parse", "stamp")
             /\ UNCHANGED <<local, child, answer, disk, process>>
    BY <1>0, <1>00, <2>1, <2>3 DEF FilesAfterSave, TypeOK
  <2> QED BY <1>4, <2>2, <2>3 DEF MakeDirectories
<1>5. ASSUME NEW c \in Calls, SavePart(c) PROVE FilesAfterSave'
  <2>1. answer[c].status = 0 /\ pc[c] = "save" /\ pc' = [pc EXCEPT ![c] = "spawn"]
        /\ UNCHANGED <<answer, extracted>>
    BY <1>5 DEF SavePart, Inv, FileInv, AnsweredWell
  <2>2. \A f \in uploads' : f \in uploads \/ f.of = c
    BY <1>5 DEF SavePart, Overwrite
  <2> QED BY <1>0, <1>00, <2>1, <2>2 DEF FilesAfterSave, TypeOK
<1>6. ASSUME NEW c \in Calls, Publish(c) PROVE FilesAfterSave'
  BY <1>0, <1>00, <1>6 DEF Publish, FilesAfterSave, TypeOK
<1>7. ASSUME NEW c \in Calls, Convert(c) PROVE FilesAfterSave'
  <2>1. \A f \in extracted' : \E g \in uploads \cup extracted : g.of = f.of
    BY <1>0, <1>7 DEF Convert, ConvertWhole, ConvertFails, Overwrite, TypeOK, Files
  <2>2. UNCHANGED <<pc, answer, uploads>>
    BY <1>7 DEF Convert, ConvertWhole, ConvertFails
  <2> QED BY <2>1, <2>2 DEF FilesAfterSave
<1>8. ASSUME Tick \/ Elsewhere \/ UNCHANGED vars PROVE FilesAfterSave'
  BY <1>8, ElsewhereIsQuiet DEF Tick, vars, FilesAfterSave
<1>9. ASSUME Restart PROVE FilesAfterSave'
  BY <1>0, <1>00, <1>9 DEF Restart, FilesAfterSave, Running, TypeOK
<1> QED
  BY <1>1, <1>2, <1>3, <1>4, <1>5, <1>6, <1>7, <1>8, <1>9 DEF Next, Handle, Elsewhere

\* A call that is answered with 400 leaves no file, its own or under its id.
THEOREM RefusedHasNoFile == Spec => []RefusedLeavesNoFile
<1>1. Init => FilesAfterSave
  BY DEF Init, FilesAfterSave
<1>2. Inv /\ FilesAfterSave => RefusedLeavesNoFile
  BY OneOwner DEF FilesAfterSave, RefusedLeavesNoFile
<1> QED BY <1>1, <1>2, InvCorrect, FilesAfterSaveStep, PTL DEF Spec

----------------------------------------------------------------------------
(* Every handler comes to an end: what fair scheduling needs for it.         *)

\* A pdftotext is started on the way to waiting for it, and not before.
ChildStarted ==
    \A c \in Calls :
        /\ pc[c] \in {"unsent", "queued", "parse", "stamp", "count", "save", "spawn"}
              => child[c] = "none"
        /\ pc[c] \in {"wait", "score"} => child[c] # "none"

LEMMA ChildStartedStep == Inv /\ ChildStarted /\ [Next]_vars => ChildStarted'
<1> SUFFICES ASSUME Inv, ChildStarted, [Next]_vars PROVE ChildStarted'
  OBVIOUS
<1>0. TypeOK
  BY DEF Inv
<1> USE DEF Goto, Reply, local, disk, process
<1>1. ASSUME NEW c \in Calls, Send(c) \/ Take(c) \/ Drop(c) \/ ReadClock(c) \/ FetchAdd(c) \/ SavePart(c)
                               \/ Spawn(c) \/ Extracted(c) \/ Publish(c)
      PROVE ChildStarted'
  BY <1>0, <1>1 DEF Send, Take, Drop, ReadClock, FetchAdd, SavePart, Spawn, Extracted, Publish,
        TypeOK, ChildStarted
<1>2. ASSUME NEW c \in Calls,
             RejectMalformed(c) \/ RejectNoParts(c) \/ RejectEmptyParts(c)
             \/ RejectUnreadablePdf(c) \/ RankingThrows(c) \/ MakeDirectories(c)
      PROVE ChildStarted'
  BY <1>0, <1>2 DEF RejectMalformed, RejectNoParts, RejectEmptyParts,
        RejectUnreadablePdf, RankingThrows, MakeDirectories, TypeOK, ChildStarted
<1>3. ASSUME NEW c \in Calls, Convert(c) PROVE ChildStarted'
  BY <1>0, <1>3 DEF Convert, ConvertWhole, ConvertFails, TypeOK, ChildStarted
<1>4. ASSUME Tick \/ Elsewhere \/ Restart \/ UNCHANGED vars PROVE ChildStarted'
  BY <1>0, <1>4, ElsewhereIsQuiet DEF Tick, Restart, vars, TypeOK, ChildStarted, Running
<1> QED BY <1>1, <1>2, <1>3, <1>4 DEF Next, Handle, Elsewhere

\* The loop over the parts leaves the handler with one part to save, or with none
\* that has a body, and a handler waits for a process that runs or has ended: no
\* handler is ever at a point where none of its ways on is open.
HandlersHaveAWay ==
    \A c \in Calls :
        /\ pc[c] = "save" => NoBody(c) \/ \E i \in DOMAIN request[c].parts : IsFirstBody(c, i)
        /\ pc[c] = "wait" => child[c] \in {"running", "ok", "failed"}

\* How far a handler is.
Stage ==
    [unsent |-> 0, queued |-> 1, parse |-> 2, stamp |-> 3, count |-> 4, save |-> 5,
     spawn |-> 6, wait |-> 7, score |-> 8, answered |-> 9, lost |-> 9]

\* No call goes back to an earlier point of its handler, is taken twice, or goes
\* on once it is answered or its server died.
CallsGoForward ==
    [][\A c \in Calls : pc'[c] # pc[c] => Stage[pc[c]] < Stage[pc'[c]]]_vars

LEMMA LeastNumber ==
    ASSUME NEW B, B \subseteq Nat, B # {}
    PROVE  \E m \in B : \A t \in B : ~(t < m)
<1>1. PICK m \in B : \A t \in B : ~(<<t, m>> \in OpToRel(<, Nat))
  BY NatLessThanWellFounded, WFMin, Zenon
<1> QED BY <1>1 DEF OpToRel

\* The search for the first part with a body finds one if there is any.
LEMMA FirstBody ==
    ASSUME TypeOK, NEW c \in Calls, ~NoBody(c)
    PROVE  \E i \in DOMAIN request[c].parts : IsFirstBody(c, i)
<1> DEFINE B == {i \in DOMAIN request[c].parts : request[c].parts[i]}
<1>1. B # {}
  BY DEF NoBody
<1>2. B \subseteq Nat
  <2>1. request[c].parts \in Seq(BOOLEAN)
    BY RequestsAssumption DEF TypeOK
  <2> QED BY <2>1
<1>3. PICK i \in B : \A j \in B : ~(j < i)
  <2> HIDE DEF B
  <2> QED BY <1>1, <1>2, LeastNumber
<1> QED BY <1>3 DEF IsFirstBody

\* Together with CallsGoForward: a call takes at most nine steps to its answer,
\* and once it has its thread it waits for nothing but its own pdftotext.  How
\* long it waits for its thread is up to the handlers before it.
THEOREM NoHandlerIsStuck == Spec => []HandlersHaveAWay
<1>1. Init => ChildStarted
  BY DEF Init, ChildStarted
<1>2. Inv /\ ChildStarted => HandlersHaveAWay
  <2> SUFFICES ASSUME Inv, ChildStarted, NEW c \in Calls
               PROVE  /\ NoBody(c) \/ \E i \in DOMAIN request[c].parts : IsFirstBody(c, i)
                      /\ pc[c] = "wait" => child[c] \in {"running", "ok", "failed"}
    BY DEF HandlersHaveAWay
  <2>1. TypeOK
    BY DEF Inv
  <2>2. NoBody(c) \/ \E i \in DOMAIN request[c].parts : IsFirstBody(c, i)
    BY <2>1, FirstBody
  <2>3. pc[c] = "wait" => child[c] \in {"running", "ok", "failed"}
    BY <2>1 DEF ChildStarted, TypeOK
  <2> QED BY <2>2, <2>3
<1> QED BY <1>1, <1>2, InvCorrect, ChildStartedStep, PTL DEF Spec

\* Whatever its threads, children and restarts do, every step of a handler takes
\* its call further.
THEOREM HandlersGoForward == Spec => CallsGoForward
<1>1. TypeOK /\ [Next]_vars => \A c \in Calls : pc'[c] # pc[c] => Stage[pc[c]] < Stage[pc'[c]]
  <2> SUFFICES ASSUME TypeOK, [Next]_vars, NEW d \in Calls, pc'[d] # pc[d]
               PROVE  Stage[pc[d]] < Stage[pc'[d]]
    OBVIOUS
  <2> USE DEF Goto, Reply, local, disk, process
  <2>1. ASSUME NEW c \in Calls,
               Send(c) \/ Take(c) \/ Drop(c) \/ ReadClock(c) \/ FetchAdd(c) \/ SavePart(c)
               \/ Spawn(c) \/ Extracted(c) \/ Publish(c)
        PROVE  Stage[pc[d]] < Stage[pc'[d]]
    BY <2>1 DEF Send, Take, Drop, ReadClock, FetchAdd, SavePart, Spawn, Extracted, Publish,
          TypeOK, Stage
  <2>2. ASSUME NEW c \in Calls,
               RejectMalformed(c) \/ RejectNoParts(c) \/ RejectEmptyParts(c)
               \/ RejectUnreadablePdf(c) \/ RankingThrows(c) \/ MakeDirectories(c)
        PROVE  Stage[pc[d]] < Stage[pc'[d]]
    BY <2>2 DEF RejectMalformed, RejectNoParts, RejectEmptyParts,
          RejectUnreadablePdf, RankingThrows, MakeDirectories, TypeOK, Stage
  <2>3. CASE Restart
    BY <2>3 DEF Restart, TypeOK, Running, Stage
  <2>4. ASSUME NEW c \in Calls, Convert(c) PROVE FALSE
    BY <2>4 DEF Convert, ConvertWhole, ConvertFails
  <2>5. ASSUME Tick \/ Elsewhere \/ UNCHANGED vars PROVE FALSE
    BY <2>5, ElsewhereIsQuiet DEF Tick, vars
  <2> QED BY <2>1, <2>2, <2>3, <2>4, <2>5 DEF Next, Handle, Elsewhere
<1> QED BY <1>1, TypeCorrect, PTL DEF Spec, CallsGoForward

----------------------------------------------------------------------------
(* Refinement.                                                               *)

\* A step that changes neither texts nor answers is a stutter of the store.
LEMMA StoreStutters ==
    UNCHANGED <<extracted, answer>> => UNCHANGED Store!vars
BY DEF Store!vars

\* A step that answers c, which had no answer, with a refusal or its own text.
Answering(c) ==
    /\ pc[c] # "answered"
    /\ UNCHANGED extracted
    /\ answer' = [answer EXCEPT ![c] = answer'[c]]
    /\ \/ answer'[c].status \in {400, 500}
       \/ /\ answer'[c].status = 200
          /\ \E f \in extracted : f.of = c /\ f.id = answer'[c].id

\* Such a step is a step of the store.
LEMMA AnswerStep ==
    ASSUME Inv, NEW c \in Calls, Answering(c)
    PROVE  Store!Next
<1> DEFINE a == answer'[c]
<1>0. /\ answer' = [answer EXCEPT ![c] = a]
      /\ \/ a.status \in {400, 500}
         \/ a.status = 200 /\ \E f \in extracted : f.of = c /\ f.id = a.id
  BY DEF Answering
<1> DEFINE texts == {[id |-> f.id, of |-> f.of] : f \in extracted}
<1> DEFINE outcome == [d \in Calls |-> OutcomeOf(answer[d])]
<1>1. answer[c].status = 0 /\ answer \in [Calls -> Answers]
  BY DEF Answering, Inv, FileInv, AnsweredWell, TypeOK
<1>2. outcome[c] = Store!Pending
  BY <1>1 DEF OutcomeOf, Store!Pending
<1>3. outcome' = [outcome EXCEPT ![c] = OutcomeOf(a)]
  BY <1>0, <1>1
<1>4. UNCHANGED texts
  BY DEF Answering
<1>5. CASE a.status \in {400, 500}
  <2>1. OutcomeOf(a) = Store!Refused
    BY <1>5 DEF OutcomeOf, Store!Refused
  <2>2. Store!Refuse(c)
    BY <1>2, <1>3, <1>4, <2>1 DEF Store!Refuse
  <2> QED BY <2>2 DEF Store!Next
<1>6. CASE a.status = 200 /\ \E f \in extracted : f.of = c /\ f.id = a.id
  <2>0. PICK f \in extracted : f.of = c /\ f.id = a.id
    BY <1>6
  <2>1. PICK t \in texts : t.of = c /\ t.id = a.id
    <3>1. [id |-> f.id, of |-> f.of] \in texts
      OBVIOUS
    <3> QED BY <2>0, <3>1
  <2>2. OutcomeOf(a) = Store!Published(t.id)
    BY <1>6, <2>1 DEF OutcomeOf, Store!Published
  <2>3. Store!Publish(c)
    <3> HIDE DEF texts, outcome
    <3>1. \E u \in texts :
             u.of = c /\ outcome' = [outcome EXCEPT ![c] = Store!Published(u.id)]
      BY <1>3, <2>1, <2>2
    <3> USE DEF texts, outcome
    <3> QED BY <1>2, <1>4, <3>1 DEF Store!Publish
  <2> QED BY <2>3 DEF Store!Next
<1> QED BY <1>0, <1>5, <1>6

\* A text that appears is a deposit under a fresh id.
LEMMA ConvertDeposits ==
    ASSUME Inv, NEW c \in Calls, Convert(c)
    PROVE  Store!Next \/ UNCHANGED Store!vars
<1>1. CASE UNCHANGED extracted
  BY <1>1, StoreStutters DEF Convert, ConvertWhole, ConvertFails
<1>2. CASE \E f \in uploads, w \in BOOLEAN :
             /\ f.id = id[c]
             /\ extracted' = Overwrite(extracted, [f EXCEPT !.whole = w])
  <2>1. PICK f \in uploads, w \in BOOLEAN :
             /\ f.id = id[c]
             /\ extracted' = Overwrite(extracted, [f EXCEPT !.whole = w])
    BY <1>2
  <2> DEFINE t == [f EXCEPT !.whole = w]
  <2>2. child[c] = "running" /\ UNCHANGED answer /\ f.of = c /\ f \in Files
    BY <2>1, OneOwner DEF Convert, ConvertWhole, ConvertFails, Inv, TypeOK
  <2>3. t.id = id[c] /\ t.of = c
    BY <2>1, <2>2 DEF Files
  <2>4. \A g \in extracted : g.id # t.id /\ g.of # t.of
    BY <2>2, <2>3, NoTextYet DEF Inv, FileInv, Converted
  <2>5. extracted' = extracted \cup {t}
    BY <2>1, <2>4 DEF Overwrite
  <2> DEFINE texts == {[id |-> g.id, of |-> g.of] : g \in extracted}
             n == [id |-> t.id, of |-> t.of]
  <2>6. texts' = texts \cup {n}
    BY <2>5
  <2>7. \A g \in texts : g.id # n.id /\ g.of # n.of
    BY <2>4
  <2>8. n.of \in Calls /\ n \in texts'
    BY <2>3, <2>6
  <2>9. UNCHANGED [d \in Calls |-> OutcomeOf(answer[d])]
    BY <2>2
  <2>10. Store!Deposit
    <3> HIDE DEF n, t
    <3> QED BY <2>6, <2>7, <2>8, <2>9 DEF Store!Deposit
  <2> QED BY <2>10 DEF Store!Next
<1>3. \A f \in uploads : f = [f EXCEPT !.whole = f.whole] /\ f.whole \in BOOLEAN
  BY DEF Inv, TypeOK, Files
<1> QED BY <1>1, <1>2, <1>3 DEF Convert, ConvertWhole, ConvertFails

\* UploadService implements ResumeStore.
THEOREM Refinement == Spec => ImplementsResumeStore
<1>1. Init => Store!Init
  BY DEF Init, NoAnswer, OutcomeOf, Store!Init, Store!Pending
<1>2. Inv /\ [Next]_vars => [Store!Next]_(Store!vars)
  <2> SUFFICES ASSUME Inv, [Next]_vars PROVE Store!Next \/ UNCHANGED Store!vars
    OBVIOUS
  <2>0. TypeOK
    BY DEF Inv
  <2> USE DEF Goto, disk
  <2>1. ASSUME NEW c \in Calls,
               RejectMalformed(c) \/ RejectNoParts(c) \/ RejectEmptyParts(c)
               \/ RejectUnreadablePdf(c) \/ RankingThrows(c)
               \/ Reply(c, "parse", 500, TRUE)
        PROVE  Store!Next
    <3>1. Answering(c)
      BY <2>0, <2>1 DEF RejectMalformed, RejectNoParts, RejectEmptyParts,
            RejectUnreadablePdf, RankingThrows, Reply, Answering, TypeOK
    <3> QED BY <3>1, AnswerStep
  <2>2. ASSUME NEW c \in Calls, Publish(c) PROVE Store!Next
    <3>1. \E f \in extracted : f.of = c /\ f.id = id[c]
      BY <2>2, OneOwner DEF Publish, Inv, FileInv, Converted
    <3>2. Answering(c)
      BY <2>0, <2>2, <3>1 DEF Publish, Answering, TypeOK
    <3> QED BY <3>2, AnswerStep
  <2>3. ASSUME NEW c \in Calls,
               Send(c) \/ Take(c) \/ Drop(c) \/ ReadClock(c) \/ FetchAdd(c) \/ SavePart(c)
               \/ Spawn(c) \/ Extracted(c)
        PROVE  UNCHANGED Store!vars
    BY <2>3, StoreStutters DEF Send, Take, Drop, ReadClock, FetchAdd, SavePart, Spawn, Extracted
  <2>4. ASSUME NEW c \in Calls, MakeDirectories(c)
        PROVE  Store!Next \/ UNCHANGED Store!vars
    BY <2>1, <2>4, StoreStutters DEF MakeDirectories
  <2>5. ASSUME Tick \/ Elsewhere \/ Restart \/ UNCHANGED vars PROVE UNCHANGED Store!vars
    BY <2>5, ElsewhereIsQuiet, StoreStutters DEF Tick, Restart, vars
  <2>6. ASSUME NEW c \in Calls, Handle(c) PROVE Store!Next \/ UNCHANGED Store!vars
    <3>1. CASE \/ RejectMalformed(c) \/ RejectNoParts(c) \/ RejectEmptyParts(c)
               \/ RejectUnreadablePdf(c) \/ RankingThrows(c)
      BY <2>1, <3>1, Zenon
    <3>2. CASE Publish(c)
      BY <2>2, <3>2
    <3>3. CASE \/ ReadClock(c) \/ FetchAdd(c) \/ SavePart(c)
               \/ Spawn(c) \/ Extracted(c)
      BY <2>3, <3>3
    <3>4. CASE MakeDirectories(c)
      BY <2>4, <3>4
    <3> QED BY <2>6, <3>1, <3>2, <3>3, <3>4, Zenon DEF Handle
  <2> QED BY <2>3, <2>5, <2>6, ConvertDeposits DEF Next, Elsewhere
<1> QED BY <1>1, <1>2, InvCorrect, PTL DEF Spec, ImplementsResumeStore, Store!Spec
=============================================================================
