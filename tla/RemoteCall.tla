----------------------------- MODULE RemoteCall -----------------------------
(***************************************************************************)
(* A call of DBClientImplData from end to end: the request that module     *)
(* Wire writes is carried by the threads and the connection of module      *)
(* RequestCycle, executed, and its response carried back and read.  The    *)
(* connection may be lost anywhere in between.                             *)
(***************************************************************************)
EXTENDS RequestCycle, Wire

callVars == <<vars, wireVars>>

CallInit == Init /\ WireInit

(* send_req writes the request and sends it ...                            *)
SendRequest == ClientAsks /\ \E c \in ClientCalls : send_request(c)

(* ... the VM's thread reads it, executes it and writes the response ...   *)
RunCommand == Answer /\ run_command

(* ... which send_req receives and reads.                                  *)
ReadResponse == ClientReads /\ read_response

CallReturns == cli = "idle" /\ Returns /\ UNCHANGED vars

(* What leaves the contents of the messages alone.                         *)
Runs(step) == step /\ UNCHANGED wireVars

CallNext ==
    \/ SendRequest \/ RunCommand \/ ReadResponse \/ CallReturns
    \/ Runs(FirstSetup) \/ Runs(Take) \/ Runs(Runner)
    \/ Runs(ClientConnects) \/ Runs(ClientLeaves)

(* The fairness of RequestCycle: the steps that carry a call, of which the *)
(* VM's thread's and the client's now also read and write messages.        *)
CallSpec == CallInit /\ [][CallNext]_callVars /\ Fairness
=============================================================================
