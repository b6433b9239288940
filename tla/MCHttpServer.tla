---------------------------- MODULE MCHttpServer ----------------------------
(* Small instances of HttpServer.                                            *)
EXTENDS HttpServer

Symmetry == Permutations(Conns)
=============================================================================
