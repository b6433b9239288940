----------------------------- MODULE MCEvaluate -----------------------------
(* A small instance of EvaluateService: two calls, of one id or of two.      *)
EXTENDS EvaluateService
=============================================================================
