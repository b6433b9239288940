---------------------------- MODULE NameExtractor ---------------------------
(* extractNameFromLine: the name in one of the first lines of a resume.  A    *)
(* line is a sequence of pieces: a run of letters, a run of digits, signs or  *)
(* brackets, '@', any other sign, white space, and two keywords.  Nothing but *)
(* taking pieces away is done to it: what is left of it is a set of places in *)
(* the line, in the order they have there, and so is each word of the name.   *)
EXTENDS Integers, Sequences, FiniteSets

CONSTANTS
    Pieces,     \* the pieces a line may be made of
    MaxPieces   \* bound: length of a line

LetterPieces == {"Ada", "linkedin", "github"}

ASSUME PiecesAssumption ==
    Pieces \subseteq LetterPieces \cup {"+-()09", "@", ".", " "} /\ MaxPieces \in Nat

VARIABLES line, extracted
naming == <<line, extracted>>

NameInit == line = <<>> /\ extracted = {}

----------------------------------------------------------------------------
WithoutDigits(s) == {i \in DOMAIN s : s[i] # "+-()09"}

\* Mutant: nothing is cut off.
AllOf(p, s, left) == left

\* What is left before the first p.
Before(p, s, left) == {i \in left : \A j \in left : s[j] = p => i < j}

\* Cut at the keyword that removeWords has first, and then at no other.
CutAtKeyword(s, left) ==
    IF \E i \in left : s[i] = "linkedin" THEN Before("linkedin", s, left)
    ELSE Before("github", s, left)

Cut(s) == CutAtKeyword(s, Before("@", s, WithoutDigits(s)))

Between(i, j) == (i..j) \cup (j..i)

\* The word around place i: as far as there is no white space left.
Word(s, left, i) == {j \in left : \A k \in left \cap Between(i, j) : s[k] # " "}

Alphabetic(s, word) == \A i \in word : s[i] \in LetterPieces

Words(s, left) ==
    {word \in {Word(s, left, i) : i \in {k \in left : s[k] # " "}} : Alphabetic(s, word)}

Ahead(v, w) == \A i \in v, j \in w : i < j

AtMostThree(words) ==
    {word \in words : Cardinality({v \in words : Ahead(v, word)}) < 3}

ExtractNameFromLine(s) == AtMostThree(Words(s, Cut(s)))

\* A longer line is looked at.
LongerLine(p) ==
    /\ Len(line) < MaxPieces
    /\ line' = Append(line, p)
    /\ extracted' = ExtractNameFromLine(line')

NameNext == \E p \in Pieces : LongerLine(p)

NameSpec == NameInit /\ [][NameNext]_naming

----------------------------------------------------------------------------
(* Properties.                                                               *)

\* Type invariant: a name is at most three words of letters.
NameTypeOK ==
    /\ line \in Seq(Pieces)
    /\ extracted \subseteq SUBSET (DOMAIN line)
    /\ Cardinality(extracted) <= 3
    /\ \A w \in extracted : w # {} /\ Alphabetic(line, w)

\* Nothing of the name stood behind an '@' or a "linkedin", and if it stood
\* behind a "github" then a "linkedin" was there to be cut at.
NothingBehindCuts ==
    \A w \in extracted : \A i \in w : \A j \in 1..i :
        /\ line[j] \notin {"@", "linkedin"}
        /\ line[j] = "github" =>
              \E k \in DOMAIN line : line[k] = "linkedin" /\ \A m \in 1..k : line[m] # "@"

\* The words of the name are words of the line: two letters are in one word if
\* no white space is between them and in two otherwise, and from the start of a
\* word on nothing but digits and brackets is left out.
WordsAreOfLine ==
    \A v, w \in extracted : \A i \in v, j \in w :
        /\ v = w <=> \A k \in Between(i, j) : line[k] # " "
        /\ \A h \in 1..j : (\A k \in h..j : line[k] # " ") => h \in w \/ line[h] = "+-()09"

\* A line of up to three words of letters, digits and brackets is a name with
\* all its letters, although a telephone number may touch it.
WholeNameIsKept ==
    /\ \A i \in DOMAIN line : line[i] \notin {"@", ".", "linkedin", "github"}
    /\ Cardinality({i \in DOMAIN line : line[i] = " "}) <= 2
    => UNION extracted = {i \in DOMAIN line : line[i] \in LetterPieces}

\* A name is of its line, and all of a plain one.
NameMeaning == NothingBehindCuts /\ WordsAreOfLine /\ WholeNameIsKept
=============================================================================
