---------------------------- MODULE MCTransport ----------------------------
(* Transport with lengths of two bytes, bytes of one bit, and messages of  *)
(* up to three bytes.                                                      *)
EXTENDS Transport
MCMsgs == {<<>>, <<1>>, <<0, 1>>, <<1, 0, 1>>}
=============================================================================
