------------------------------ MODULE MCUpload ------------------------------
(* A small instance of UploadService.                                         *)
EXTENDS UploadService

\* Ill-formed; no part at all; only empty parts; an empty part before two
\* with a body, so that "the first" is neither part 1 nor the last.
MCRequests ==
    { [wellFormed |-> FALSE, parts |-> <<>>],
      [wellFormed |-> TRUE,  parts |-> <<>>],
      [wellFormed |-> TRUE,  parts |-> <<FALSE>>],
      [wellFormed |-> TRUE,  parts |-> <<FALSE, TRUE, TRUE>>] }
=============================================================================
