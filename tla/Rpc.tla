-------------------------------- MODULE Rpc --------------------------------
(***************************************************************************)
(* What a client of the data protocol relies on: it asks one request at a  *)
(* time, every request is executed once by the VM's thread, and the answer *)
(* it reads is the one to the request it asked.  Either side may lose the  *)
(* connection at any time, after which nothing is answered any more.       *)
(***************************************************************************)
CONSTANT Request
CONSTANT NoRequest  \* no request pending

VARIABLES
    phase,   \* "idle", "asked", "executed" or "lost"
    pending  \* the request asked and not yet answered

rpcVars == <<phase, pending>>

Init == phase = "idle" /\ pending = NoRequest

Ask ==
    /\ phase = "idle"
    /\ phase' = "asked"
    /\ pending' \in Request

Execute ==
    /\ phase = "asked"
    /\ phase' = "executed"
    /\ UNCHANGED pending

Answer ==
    /\ phase = "executed"
    /\ phase' = "idle"
    /\ pending' = NoRequest

Lose ==
    /\ phase # "lost"
    /\ phase' = "lost"
    /\ pending' = NoRequest

Next == Ask \/ Execute \/ Answer \/ Lose

Spec == Init /\ [][Next]_rpcVars
=============================================================================
