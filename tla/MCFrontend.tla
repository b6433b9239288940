----------------------------- MODULE MCFrontend -----------------------------
(* Small instances of Frontend: two roles and four rankings.                 *)
EXTENDS Frontend

CONSTANTS backend, android

Ranking(best, top) == [best |-> best, top |-> top]

\* The usual one; one whose best role shares its score with the listed ones; no
\* score above -1; no profile at all.
MCRankings ==
    {Ranking(backend, <<backend, android>>), Ranking(android, <<backend>>),
     Ranking(NoRole, <<backend>>), Ranking(NoRole, <<>>)}
=============================================================================
