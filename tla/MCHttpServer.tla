---------------------------- MODULE MCHttpServer ---------------------------
(* Instances of HttpServer for TLC; the bounds are in the configurations. *)
EXTENDS HttpServer
=============================================================================
