----------------------------- MODULE MCDBClient -----------------------------
(* DBClient with a few registers.                                          *)
EXTENDS DBClient
=============================================================================
