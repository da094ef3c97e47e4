---------------------------- MODULE MCHttpServer ----------------------------
(* HttpServer with two connections, one file, uploads of 0 and 2 units, a   *)
(* page longer than the send buffer, and a header buffer of two units.      *)
EXTENDS HttpServer
=============================================================================
