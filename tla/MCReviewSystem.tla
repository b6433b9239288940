--------------------------- MODULE MCReviewSystem ---------------------------
(* Small instances of ReviewSystem: one role, or two to change between.      *)
EXTENDS ReviewSystem

CONSTANTS backend, android

OneRole == {[best |-> backend, top |-> <<backend>>]}
TwoRoles == {[best |-> backend, top |-> <<backend, android>>]}
=============================================================================
