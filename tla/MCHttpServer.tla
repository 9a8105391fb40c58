----------------------------- MODULE MCHttpServer -----------------------------
(* HttpServer with symmetric connections for TLC.                              *)
EXTENDS HttpServer, TLC

AnyConnection == Permutations(Connections)
===============================================================================
