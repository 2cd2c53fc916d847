-------------------------- MODULE MCRemoteSession --------------------------
(* RemoteSession on a small VM.                                            *)
EXTENDS RemoteSession
=============================================================================
