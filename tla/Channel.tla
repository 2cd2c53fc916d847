------------------------------ MODULE Channel ------------------------------
(***************************************************************************)
(* What send_data and recv_data promise their callers                      *)
(* (abstract-data-client.hh, abstract-data-server.hh): messages arrive     *)
(* whole and in the order in which they were sent, none of them twice.     *)
(* Some may never arrive.  Once a transfer was torn apart in the middle of *)
(* a message, anything may arrive.                                         *)
(***************************************************************************)
EXTENDS Naturals, Sequences

CONSTANT Message   \* everything a receiver can take for a message

VARIABLES sent, got, torn

channelVars == <<sent, got, torn>>

Init == sent = <<>> /\ got = <<>> /\ torn = FALSE

Send == /\ \E m \in Message : sent' = Append(sent, m)
        /\ UNCHANGED <<got, torn>>

Deliver ==
    /\ ~torn
    /\ Len(got) < Len(sent)
    /\ got' = Append(got, sent[Len(got) + 1])
    /\ UNCHANGED <<sent, torn>>

Tear == torn' = TRUE /\ UNCHANGED <<sent, got>>

Garbage ==
    /\ torn
    /\ \E m \in Message : got' = Append(got, m)
    /\ UNCHANGED <<sent, torn>>

Next == Send \/ Deliver \/ Tear \/ Garbage

Spec == Init /\ [][Next]_channelVars
=============================================================================
