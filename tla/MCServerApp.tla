---------------------------- MODULE MCServerApp ----------------------------
(* ServerApp with any client handler, on a small VM.                       *)
EXTENDS ServerApp
=============================================================================
