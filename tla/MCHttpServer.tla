---------------------------- MODULE MCHttpServer ----------------------------
(***************************************************************************)
(* An instance of HttpServer for TLC: two ordinary calls and a stream.     *)
(***************************************************************************)
EXTENDS HttpServer
=============================================================================
