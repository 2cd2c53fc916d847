---------------------------- MODULE MCCLIHandler ----------------------------
(* CLIHandler on a small VM.                                               *)
EXTENDS CLIHandler
=============================================================================
