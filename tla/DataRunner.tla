----------------------------- MODULE DataRunner -----------------------------
(***************************************************************************)
(* The network thread of the server: class DataClientServerRunner of       *)
(* src/server/data-client-handler.cc over a TCPDataServer, and the one TCP *)
(* connection it serves.                                                   *)
(*                                                                         *)
(* The thread and the VM's thread share the atomic _state and the buffers  *)
(* _in and _out, which no lock protects: the thread owns _in while it      *)
(* receives and _out while it sends, and hands both over by _state =       *)
(* HAS_REQ; the VM's thread hands them back by _state = SENDING_RES.       *)
(*                                                                         *)
(* TCP delivers whole requests and responses in order, or the connection   *)
(* breaks; what a message contains is left to the modules that extend this *)
(* one.  _stop and _state are written together by stop(), which only this  *)
(* thread calls, and only this thread reads _stop: the two writes are one  *)
(* step.                                                                   *)
(***************************************************************************)
EXTENDS Naturals, Sequences

VARIABLES
    rpc,      \* where the thread is
    rstate,   \* _state
    rstop,    \* _stop
    inBuf,    \* _in: the request in it, empty once it was executed
    outBuf,   \* _out: the response in it, empty once it was sent
    serving,  \* is the VM's thread between get_req() and signal_res()?
    link,     \* the connection: "none", "pending", "open" or "closed"
    toServ,   \* requests on their way to the server
    toCli     \* responses on their way to the client

threadVars == <<rpc, rstate, rstop>>
bufVars    == <<inBuf, outBuf>>
netVars    == <<link, toServ, toCli>>
runnerVars == <<threadVars, bufVars, serving, netVars>>

RunnerState == {"CONNECTING", "NO_REQ", "SENDING_RES", "HAS_REQ", "ERROR"}

RunnerInit ==
    /\ rpc = "off" /\ rstate = "CONNECTING" /\ rstop = FALSE
    /\ inBuf = <<>> /\ outBuf = <<>> /\ serving = FALSE
    /\ link = "none" /\ toServ = <<>> /\ toCli = <<>>

-----------------------------------------------------------------------------
(* The thread: loop().                                                     *)

(* DataClientHandler::_init() and start(), from the first                  *)
(* setup_connection().                                                     *)
RunnerStart ==
    /\ rpc = "off"
    /\ rpc' = "bind" /\ rstate' = "CONNECTING" /\ rstop' = FALSE

(* stop(): the thread ends and the VM's thread will see an error.          *)
RunnerFails ==
    /\ rpc' = "end" /\ rstate' = "ERROR" /\ rstop' = TRUE
    /\ UNCHANGED <<bufVars, serving, netVars>>

(* socket, bind and listen ...                                             *)
RunnerListen ==
    /\ rpc = "bind"
    /\ rpc' = "accept"
    /\ UNCHANGED <<rstate, rstop, bufVars, serving, netVars>>

RunnerListenFails == rpc = "bind" /\ RunnerFails

(* ... then accept blocks until a client has connected.                    *)
RunnerAccept ==
    /\ rpc = "accept" /\ link # "none"
    /\ link' = IF link = "pending" THEN "open" ELSE link
    /\ rpc' = "recv" /\ rstate' = "NO_REQ"
    /\ UNCHANGED <<rstop, bufVars, serving, toServ, toCli>>

RunnerAcceptFails == rpc = "accept" /\ RunnerFails

(* Mutant of RunnerRecv: _state stays what it was, so that the thread does *)
(* not wait for the response.                                              *)
MutRunnerRecv ==
    /\ rpc = "recv" /\ toServ # <<>>
    /\ inBuf' = <<Head(toServ)>>
    /\ toServ' = Tail(toServ)
    /\ rpc' = "wait"
    /\ UNCHANGED <<rstate, rstop, outBuf, serving, link, toCli>>

(* recv_data blocks until a whole request is there, or the peer is gone.   *)
(* A closed connection may still deliver what was sent before, or lose it. *)
RunnerRecv ==
    /\ rpc = "recv" /\ toServ # <<>>
    /\ inBuf' = <<Head(toServ)>>
    /\ toServ' = Tail(toServ)
    /\ rpc' = "wait" /\ rstate' = "HAS_REQ"
    /\ UNCHANGED <<rstop, outBuf, serving, link, toCli>>

(* Mutant of RunnerRecvFails: a failed recv is tried again.                *)
MutRunnerRecvFails == rpc = "recv" /\ link = "closed" /\ UNCHANGED runnerVars

RunnerRecvFails == rpc = "recv" /\ link = "closed" /\ RunnerFails

(* The spin of lines 86-88 ends when the VM's thread has answered.         *)
RunnerSeesAnswer ==
    /\ rpc = "wait" /\ rstate # "HAS_REQ"
    /\ rpc' = "send"
    /\ UNCHANGED <<rstate, rstop, bufVars, serving, netVars>>

(* Mutants of RunnerSend: the response is written twice, or not at all.    *)
MutRunnerSendTwice ==
    /\ rpc = "send"
    /\ toCli' = IF link = "open" THEN toCli \o outBuf \o outBuf ELSE toCli
    /\ outBuf' = <<>>
    /\ rpc' = "recv" /\ rstate' = "NO_REQ"
    /\ UNCHANGED <<rstop, inBuf, serving, link, toServ>>

MutRunnerSendNot ==
    /\ rpc = "send"
    /\ outBuf' = <<>>
    /\ rpc' = "recv" /\ rstate' = "NO_REQ"
    /\ UNCHANGED <<rstop, inBuf, serving, netVars>>

RunnerSend ==
    /\ rpc = "send"
    /\ toCli' = IF link = "open" THEN toCli \o outBuf ELSE toCli
    /\ outBuf' = <<>>
    /\ rpc' = "recv" /\ rstate' = "NO_REQ"
    /\ UNCHANGED <<rstop, inBuf, serving, link, toServ>>

RunnerSendFails == rpc = "send" /\ link = "closed" /\ RunnerFails

RunnerStep ==
    \/ RunnerListen \/ RunnerListenFails \/ RunnerAccept \/ RunnerAcceptFails
    \/ RunnerRecv \/ RunnerRecvFails \/ RunnerSeesAnswer
    \/ RunnerSend \/ RunnerSendFails

-----------------------------------------------------------------------------
(* The VM's thread: the parts of check_stopped() and run_command() that    *)
(* touch the runner.                                                       *)

(* It found HAS_REQ and reads the request.                                 *)
TakeRequest ==
    /\ rstate = "HAS_REQ" /\ ~serving
    /\ serving' = TRUE
    /\ UNCHANGED <<threadVars, bufVars, netVars>>

(* Mutant of SignalRes: _state is set to what the thread itself sets it to *)
(* after sending.                                                          *)
MutSignalRes(res) ==
    /\ serving
    /\ inBuf' = <<>> /\ outBuf' = <<res>>
    /\ rstate' = "NO_REQ"
    /\ serving' = FALSE
    /\ UNCHANGED <<rpc, rstop, netVars>>

(* It wrote the response: signal_res().                                    *)
SignalRes(res) ==
    /\ serving
    /\ inBuf' = <<>> /\ outBuf' = <<res>>
    /\ rstate' = "SENDING_RES"
    /\ serving' = FALSE
    /\ UNCHANGED <<rpc, rstop, netVars>>

-----------------------------------------------------------------------------
(* The client's side of the connection: TCPDataClient.                     *)

NetConnect == rpc \in {"accept", "recv", "wait", "send"} /\ link = "none"
              /\ link' = "pending"

NetSend(req) == link \in {"pending", "open"} /\ toServ' = Append(toServ, req)

NetClose == link' = "closed"

-----------------------------------------------------------------------------
(* The asserts of get_req, get_res, signal_res (lines 51, 57, 65) and of   *)
(* loop (line 93): between HAS_REQ and signal_res the state is HAS_REQ, and *)
(* the thread that leaves its spin finds SENDING_RES.                      *)
RunnerAsserts ==
    /\ serving => rstate = "HAS_REQ"
    /\ rpc = "send" => rstate = "SENDING_RES"

(* _in and _out have one owner at a time: while the VM's thread reads the  *)
(* request and writes the response, the network thread neither receives    *)
(* into _in nor sends from _out, although no lock orders them.             *)
BuffersExclusive ==
    /\ serving => rpc = "wait"
    /\ rpc = "send" => outBuf # <<>>
=============================================================================
