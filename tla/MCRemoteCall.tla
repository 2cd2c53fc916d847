---------------------------- MODULE MCRemoteCall ----------------------------
(* Module RemoteCall for TLC: names of one and two characters.             *)
EXTENDS RemoteCall

MCName == {<<1>>, <<2, 3>>}
=============================================================================
