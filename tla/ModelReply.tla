----------------------------- MODULE ModelReply -----------------------------
(* What POST /evaluate makes of the response file: the ways out of its last  *)
(* part, and the unwrapping of a review from a markdown block.               *)
EXTENDS Integers, Sequences, SequencesExt

CONSTANT MaxAtoms   \* bound: length of the model's text

\* The text of the model in pieces: ```, the word json, white space, a JSON
\* value, the two ends of a JSON value around a string, and other words.
Atoms == {"fence", "json", "space", "value", "open", "close", "word"}

\* The response file: nothing; no JSON; an error, with or without a message; no
\* candidates; candidates without the text; candidates with it.
Files == {"empty", "garbage", "error", "errorOnly", "other", "shapeless", "text"}

NoResponse == [status |-> 0, body |-> <<>>]
Fallback == [status |-> 200, body |-> <<"fallback">>]
Error(what) == [status |-> 500, body |-> <<what>>]

VARIABLES replyFile, text, response
unwrapping == <<replyFile, text, response>>

ReplyInit == replyFile \in Files /\ text = <<>> /\ response = NoResponse

----------------------------------------------------------------------------
Fences(t) == {i \in DOMAIN t : t[i] = "fence"}

\* Mutant: the first fence instead of the last.
UpToFirstFence(t) ==
    IF Fences(t) = {} THEN t
    ELSE SubSeq(t, 1, (CHOOSE i \in Fences(t) : \A j \in Fences(t) : i <= j) - 1)

\* substr(0, rfind("```"))
UpToLastFence(t) ==
    IF Fences(t) = {} THEN t
    ELSE SubSeq(t, 1, (CHOOSE i \in Fences(t) : \A j \in Fences(t) : j <= i) - 1)

\* A text that begins with a fence loses it, the word json after it, and all
\* from the last fence on.
Cleaned(t) ==
    CASE IsPrefix(<<"fence", "json">>, t) -> UpToLastFence(SubSeq(t, 3, Len(t)))
      [] IsPrefix(<<"fence">>, t) /\ ~IsPrefix(<<"fence", "json">>, t) ->
            UpToLastFence(Tail(t))
      [] OTHER -> t

\* trim_ws
Trimmed(t) ==
    LET solid == {i \in DOMAIN t : t[i] # "space"}
    IN  IF solid = {} THEN <<>>
        ELSE SubSeq(t, CHOOSE i \in solid : \A j \in solid : i <= j,
                       CHOOSE i \in solid : \A j \in solid : j <= i)

\* crow::json::load takes a text that is one JSON value and nothing more.
IsJson(t) ==
    \/ t = <<"value">>
    \/ /\ Len(t) >= 2 /\ t[1] = "open" /\ t[Len(t)] = "close"
       /\ \A i \in 2..(Len(t) - 1) : t[i] \notin {"open", "close"}

----------------------------------------------------------------------------
\* The model writes its text.
Write(a) ==
    /\ replyFile = "text" /\ response = NoResponse /\ Len(text) < MaxAtoms
    /\ text' = Append(text, a)
    /\ UNCHANGED <<replyFile, response>>

Respond(r) ==
    /\ response = NoResponse
    /\ response' = r
    /\ UNCHANGED <<replyFile, text>>

NoReply == replyFile = "empty" /\ Respond(Fallback)

BadReply == replyFile = "garbage" /\ Respond(Error("Invalid JSON from LLM"))

\* An error without a message, and candidates without a text, throw.
ErrorReply ==
    \/ replyFile = "error" /\ Respond(Error("Gemini API error"))
    \/ replyFile \in {"errorOnly", "shapeless"} /\ Respond(Error("what()"))

OtherReply == replyFile = "other" /\ Respond(Error("Unexpected API response"))

BadText ==
    /\ replyFile = "text" /\ ~IsJson(Trimmed(Cleaned(text)))
    /\ Respond(Error("Could not parse LLM output"))

Review ==
    /\ replyFile = "text" /\ IsJson(Trimmed(Cleaned(text)))
    /\ Respond([status |-> 200, body |-> Trimmed(Cleaned(text))])

ReplyNext ==
    \/ \E a \in Atoms : Write(a)
    \/ NoReply \/ BadReply \/ ErrorReply \/ OtherReply \/ BadText \/ Review

ReplySpec == ReplyInit /\ [][ReplyNext]_unwrapping

----------------------------------------------------------------------------
(* Properties.                                                               *)

\* Type invariant of the unwrapping.
ReplyTypeOK ==
    /\ replyFile \in Files /\ text \in Seq(Atoms)
    /\ response.status \in {0, 200, 500}
    /\ response.status = 500 => Len(response.body) = 1

\* The JSON values inside a text: from i to j.
Inside(i, j) == i <= j /\ IsJson(SubSeq(text, i, j))

Spaces(i, j) == \A k \in i..j : text[k] = "space"

\* The text is a block ``` or ```json, white space, a value, white space, ```,
\* and any words after it but no further block.
BlockOf(i, j) ==
    /\ Inside(i, j) /\ text[1] = "fence"
    /\ Spaces(2, i - 1) \/ (text[2] = "json" /\ Spaces(3, i - 1))
    /\ \E k \in (j + 1)..Len(text) :
          /\ text[k] = "fence" /\ Spaces(j + 1, k - 1)
          /\ \A m \in (k + 1)..Len(text) : text[m] # "fence"

\* A value in a markdown block is what the caller gets, though its strings may
\* have fences of their own, and words may follow the block.
BlockIsUnwrapped ==
    response # NoResponse => \A i, j \in DOMAIN text :
        BlockOf(i, j) => response = [status |-> 200, body |-> SubSeq(text, i, j)]

\* A value without a block arrives as it is, fences in its strings and all.
PlainIsKept ==
    response # NoResponse => \A i, j \in DOMAIN text :
        Inside(i, j) /\ Spaces(1, i - 1) /\ Spaces(j + 1, Len(text)) =>
            response = [status |-> 200, body |-> SubSeq(text, i, j)]

\* A review arrives whole and alone, however the model has wrapped it.
ReviewArrivesWhole == BlockIsUnwrapped /\ PlainIsKept
=============================================================================
